---- MODULE Spec2Model ----
(***************************************************************************)
(* Text transcoding engine of the ESC/POS thermal printer integration:     *)
(* custom_components/escpos_printer/text_utils.                            *)
(*                                                                         *)
(* Text is a sequence of Unicode code points (naturals).  Codepage and     *)
(* codec names are sequences of one-character strings, so that the name    *)
(* handling of get_codec_name (upper, replace, startswith, isdigit, split, *)
(* lower) is computed character by character as the code computes it.      *)
(*                                                                         *)
(* transcode_to_codepage is a state machine with one action per step of    *)
(* its body: entry, codec probe, and for every character of the            *)
(* normalized text the native attempt, the look-alike tier, the accent     *)
(* tier and the placeholder.  The encoding runtime (codec lookup, strict   *)
(* encode, NFKC) is tabulated from the runtime's own data for the          *)
(* characters the model can produce.                                       *)
(***************************************************************************)
EXTENDS Integers, Sequences, FiniteSets, TLC

(***************************************************************************)
(* Bounds of the model.                                                    *)
(***************************************************************************)
\* Longest input text, in code points.
MaxLen == 2
\* Number of times the caller passes a result back in as the next input.
MaxPass == 2
\* Number of single-character edits between the two spellings of a name.
MaxEdits == 1
\* Longest string handed to map_multiplier, in characters.
MaxValLen == 2
\* Largest magnitude of an integer handed to map_multiplier.
MaxValInt == 10
\* Number of operations requested of one printer adapter.
MaxOps == 4
\* Number of status listeners registered with one adapter at a time.
MaxListeners == 2
\* Longest text handed to _wrap_text on its own, in characters.
MaxWrapLen == 4
\* Longest list of devices handed to _build_usb_device_choices.
MaxDevices == 3

(***************************************************************************)
(* String primitives on names (sequences of one-character strings).        *)
(***************************************************************************)
LowerLetters ==
    <<"a", "b", "c", "d", "e", "f", "g", "h", "i", "j", "k", "l", "m",
      "n", "o", "p", "q", "r", "s", "t", "u", "v", "w", "x", "y", "z">>

UpperLetters ==
    <<"A", "B", "C", "D", "E", "F", "G", "H", "I", "J", "K", "L", "M",
      "N", "O", "P", "Q", "R", "S", "T", "U", "V", "W", "X", "Y", "Z">>

Digits == {"0", "1", "2", "3", "4", "5", "6", "7", "8", "9"}

UpperChar(ch) ==
    IF \E i \in 1..26 : LowerLetters[i] = ch
    THEN UpperLetters[CHOOSE i \in 1..26 : LowerLetters[i] = ch]
    ELSE ch

LowerChar(ch) ==
    IF \E i \in 1..26 : UpperLetters[i] = ch
    THEN LowerLetters[CHOOSE i \in 1..26 : UpperLetters[i] = ch]
    ELSE ch

\* str.upper()
Upper(s) == [i \in 1..Len(s) |-> UpperChar(s[i])]

\* str.lower()
Lower(s) == [i \in 1..Len(s) |-> LowerChar(s[i])]

\* str.replace(old, new) for a one-character old and a string new
RECURSIVE Replace(_, _, _)
Replace(s, old, new) ==
    IF s = <<>> THEN <<>>
    ELSE (IF Head(s) = old THEN new ELSE <<Head(s)>>)
         \o Replace(Tail(s), old, new)

\* str.startswith(prefix)
StartsWith(s, prefix) ==
    /\ Len(s) >= Len(prefix)
    /\ SubSeq(s, 1, Len(prefix)) = prefix

\* str.isdigit(): non-empty and all digits
IsDigit(s) ==
    /\ Len(s) > 0
    /\ \A i \in 1..Len(s) : s[i] \in Digits

\* s.split(sep)[-1]: what follows the last separator (all of s if none)
RECURSIVE LastField(_, _)
LastField(s, sep) ==
    IF \E i \in 1..Len(s) : s[i] = sep
    THEN LastField(SubSeq(s, (CHOOSE i \in 1..Len(s) : s[i] = sep) + 1, Len(s)), sep)
    ELSE s

(***************************************************************************)
(* The module-level tables of text_utils.  They are dictionaries, objects  *)
(* any code of the process can write to: their literals are the Initial    *)
(* definitions, their contents at run time are state.                      *)
(***************************************************************************)
VARIABLES
    CODEPAGE_TO_CODEC,    \* codepage_mapping.CODEPAGE_TO_CODEC
    LOOKALIKE_MAP,        \* lookalike_map.LOOKALIKE_MAP
    ACCENT_FALLBACK_MAP   \* accent_fallback_map.ACCENT_FALLBACK_MAP

tables == <<CODEPAGE_TO_CODEC, LOOKALIKE_MAP, ACCENT_FALLBACK_MAP>>

(***************************************************************************)
(* codepage_mapping.py                                                     *)
(***************************************************************************)
InitialCodepageToCodec ==
    (<<"C", "P", "4", "3", "7">> :> <<"c", "p", "4", "3", "7">>)
    @@ (<<"C", "P", "8", "5", "0">> :> <<"c", "p", "8", "5", "0">>)
    @@ (<<"C", "P", "8", "5", "2">> :> <<"c", "p", "8", "5", "2">>)
    @@ (<<"C", "P", "8", "5", "8">> :> <<"c", "p", "8", "5", "8">>)
    @@ (<<"C", "P", "8", "6", "0">> :> <<"c", "p", "8", "6", "0">>)
    @@ (<<"C", "P", "8", "6", "3">> :> <<"c", "p", "8", "6", "3">>)
    @@ (<<"C", "P", "8", "6", "5">> :> <<"c", "p", "8", "6", "5">>)
    @@ (<<"C", "P", "8", "6", "6">> :> <<"c", "p", "8", "6", "6">>)
    @@ (<<"C", "P", "9", "3", "2">> :> <<"c", "p", "9", "3", "2">>)
    @@ (<<"C", "P", "1", "2", "5", "0">> :> <<"c", "p", "1", "2", "5", "0">>)
    @@ (<<"C", "P", "1", "2", "5", "1">> :> <<"c", "p", "1", "2", "5", "1">>)
    @@ (<<"C", "P", "1", "2", "5", "2">> :> <<"c", "p", "1", "2", "5", "2">>)
    @@ (<<"C", "P", "1", "2", "5", "3">> :> <<"c", "p", "1", "2", "5", "3">>)
    @@ (<<"C", "P", "1", "2", "5", "4">> :> <<"c", "p", "1", "2", "5", "4">>)
    @@ (<<"C", "P", "1", "2", "5", "5">> :> <<"c", "p", "1", "2", "5", "5">>)
    @@ (<<"C", "P", "1", "2", "5", "6">> :> <<"c", "p", "1", "2", "5", "6">>)
    @@ (<<"C", "P", "1", "2", "5", "7">> :> <<"c", "p", "1", "2", "5", "7">>)
    @@ (<<"C", "P", "1", "2", "5", "8">> :> <<"c", "p", "1", "2", "5", "8">>)
    @@ (<<"I", "S", "O", "_", "8", "8", "5", "9", "-", "1">> :> <<"i", "s", "o", "-", "8", "8", "5", "9", "-", "1">>)
    @@ (<<"I", "S", "O", "_", "8", "8", "5", "9", "-", "2">> :> <<"i", "s", "o", "-", "8", "8", "5", "9", "-", "2">>)
    @@ (<<"I", "S", "O", "_", "8", "8", "5", "9", "-", "7">> :> <<"i", "s", "o", "-", "8", "8", "5", "9", "-", "7">>)
    @@ (<<"I", "S", "O", "_", "8", "8", "5", "9", "-", "1", "5">> :> <<"i", "s", "o", "-", "8", "8", "5", "9", "-", "1", "5">>)
    @@ (<<"L", "A", "T", "I", "N", "1">> :> <<"l", "a", "t", "i", "n", "-", "1">>)
    @@ (<<"U", "T", "F", "-", "8">> :> <<"u", "t", "f", "-", "8">>)

\* Variant of get_codec_name: a name that is not a key of the table is
\* lowercased at once, the CP and ISO patterns are not tried.
get_codec_name_NoPatterns(codepage) ==
    IF Upper(codepage) \in DOMAIN CODEPAGE_TO_CODEC
    THEN CODEPAGE_TO_CODEC[Upper(codepage)]
    ELSE Lower(codepage)

\* Variant of get_codec_name: a name that matches nothing is returned as
\* it was given, not lowercased.
get_codec_name_KeepsCase(codepage) ==
    IF Upper(codepage) \in DOMAIN CODEPAGE_TO_CODEC
    THEN CODEPAGE_TO_CODEC[Upper(codepage)]
    ELSE LET normalized == Replace(Replace(Upper(codepage), "-", <<"_">>), " ", <<>>)
         IN  IF StartsWith(normalized, <<"C", "P">>)
                /\ IsDigit(SubSeq(normalized, 3, Len(normalized)))
             THEN <<"c", "p">> \o SubSeq(normalized, 3, Len(normalized))
             ELSE IF \/ StartsWith(normalized, <<"I", "S", "O", "_", "8", "8", "5", "9", "_">>)
                     \/ StartsWith(normalized, <<"I", "S", "O", "8", "8", "5", "9", "_">>)
             THEN <<"i", "s", "o", "-", "8", "8", "5", "9", "-">> \o LastField(normalized, "_")
             ELSE codepage

\* def get_codec_name(codepage): table, then CP<digits>, then ISO-8859-<n>,
\* then the lowercased name
get_codec_name(codepage) ==
    IF Upper(codepage) \in DOMAIN CODEPAGE_TO_CODEC
    THEN CODEPAGE_TO_CODEC[Upper(codepage)]
    ELSE LET normalized == Replace(Replace(Upper(codepage), "-", <<"_">>), " ", <<>>)
         IN  IF StartsWith(normalized, <<"C", "P">>)
                /\ IsDigit(SubSeq(normalized, 3, Len(normalized)))
             THEN <<"c", "p">> \o SubSeq(normalized, 3, Len(normalized))
             ELSE IF \/ StartsWith(normalized, <<"I", "S", "O", "_", "8", "8", "5", "9", "_">>)
                     \/ StartsWith(normalized, <<"I", "S", "O", "8", "8", "5", "9", "_">>)
             THEN <<"i", "s", "o", "-", "8", "8", "5", "9", "-">> \o LastField(normalized, "_")
             ELSE Lower(codepage)

(***************************************************************************)
(* lookalike_map.py: code point -> replacement text.                       *)
(***************************************************************************)
InitialLookalikeMap ==
    (8216 :> <<39>>)
    @@ (8217 :> <<39>>)
    @@ (8218 :> <<44>>)
    @@ (8219 :> <<39>>)
    @@ (8220 :> <<34>>)
    @@ (8221 :> <<34>>)
    @@ (8222 :> <<34>>)
    @@ (8223 :> <<34>>)
    @@ (8242 :> <<39>>)
    @@ (8243 :> <<34>>)
    @@ (8244 :> <<39, 39, 39>>)
    @@ (8245 :> <<39>>)
    @@ (8246 :> <<34>>)
    @@ (8247 :> <<39, 39, 39>>)
    @@ (171 :> <<60, 60>>)
    @@ (187 :> <<62, 62>>)
    @@ (8249 :> <<60>>)
    @@ (8250 :> <<62>>)
    @@ (8208 :> <<45>>)
    @@ (8209 :> <<45>>)
    @@ (8210 :> <<45>>)
    @@ (8211 :> <<45>>)
    @@ (8212 :> <<45, 45>>)
    @@ (8213 :> <<45, 45>>)
    @@ (8722 :> <<45>>)
    @@ (65112 :> <<45>>)
    @@ (65123 :> <<45>>)
    @@ (65293 :> <<45>>)
    @@ (160 :> <<32>>)
    @@ (8192 :> <<32>>)
    @@ (8193 :> <<32>>)
    @@ (8194 :> <<32>>)
    @@ (8195 :> <<32>>)
    @@ (8196 :> <<32>>)
    @@ (8197 :> <<32>>)
    @@ (8198 :> <<32>>)
    @@ (8199 :> <<32>>)
    @@ (8200 :> <<32>>)
    @@ (8201 :> <<32>>)
    @@ (8202 :> <<32>>)
    @@ (8203 :> <<>>)
    @@ (8239 :> <<32>>)
    @@ (8287 :> <<32>>)
    @@ (12288 :> <<32>>)
    @@ (65279 :> <<>>)
    @@ (8230 :> <<46, 46, 46>>)
    @@ (8942 :> <<58>>)
    @@ (8943 :> <<46, 46, 46>>)
    @@ (183 :> <<46>>)
    @@ (8226 :> <<42>>)
    @@ (8227 :> <<62>>)
    @@ (8228 :> <<46>>)
    @@ (8229 :> <<46, 46>>)
    @@ (8231 :> <<45>>)
    @@ (8592 :> <<60, 45>>)
    @@ (8593 :> <<94>>)
    @@ (8594 :> <<45, 62>>)
    @@ (8595 :> <<118>>)
    @@ (8596 :> <<60, 45, 62>>)
    @@ (8656 :> <<60, 61>>)
    @@ (8658 :> <<61, 62>>)
    @@ (8660 :> <<60, 61, 62>>)
    @@ (215 :> <<120>>)
    @@ (8800 :> <<33, 61>>)
    @@ (8804 :> <<60, 61>>)
    @@ (8805 :> <<62, 61>>)
    @@ (8776 :> <<126, 61>>)
    @@ (8734 :> <<105, 110, 102>>)
    @@ (8240 :> <<111, 47, 111, 111>>)
    @@ (190 :> <<51, 47, 52>>)
    @@ (8531 :> <<49, 47, 51>>)
    @@ (8532 :> <<50, 47, 51>>)
    @@ (8364 :> <<69, 85, 82>>)
    @@ (8356 :> <<71, 66, 80>>)
    @@ (8377 :> <<73, 78, 82>>)
    @@ (8381 :> <<82, 85, 66>>)
    @@ (8383 :> <<66, 84, 67>>)
    @@ (169 :> <<40, 67, 41>>)
    @@ (174 :> <<40, 82, 41>>)
    @@ (8482 :> <<40, 84, 77, 41>>)
    @@ (8480 :> <<40, 83, 77, 41>>)
    @@ (8451 :> <<67>>)
    @@ (8457 :> <<70>>)
    @@ (178 :> <<50>>)
    @@ (179 :> <<51>>)
    @@ (185 :> <<49>>)
    @@ (8304 :> <<48>>)
    @@ (8308 :> <<52>>)
    @@ (8309 :> <<53>>)
    @@ (8310 :> <<54>>)
    @@ (8311 :> <<55>>)
    @@ (8312 :> <<56>>)
    @@ (8313 :> <<57>>)
    @@ (8320 :> <<48>>)
    @@ (8321 :> <<49>>)
    @@ (8322 :> <<50>>)
    @@ (8323 :> <<51>>)
    @@ (8324 :> <<52>>)
    @@ (8325 :> <<53>>)
    @@ (8326 :> <<54>>)
    @@ (8327 :> <<55>>)
    @@ (8328 :> <<56>>)
    @@ (8329 :> <<57>>)
    @@ (8214 :> <<124, 124>>)
    @@ (8215 :> <<95>>)
    @@ (8259 :> <<45>>)
    @@ (8260 :> <<47>>)
    @@ (8274 :> <<37>>)
    @@ (8413 :> <<40, 41>>)
    @@ (8470 :> <<78, 111, 46>>)
    @@ (8471 :> <<40, 80, 41>>)
    @@ (8478 :> <<82, 120>>)
    @@ (8756 :> <<116, 104, 101, 114, 101, 102, 111, 114, 101>>)
    @@ (8757 :> <<98, 101, 99, 97, 117, 115, 101>>)
    @@ (9472 :> <<45>>)
    @@ (9473 :> <<45>>)
    @@ (9474 :> <<124>>)
    @@ (9475 :> <<124>>)
    @@ (9484 :> <<43>>)
    @@ (9485 :> <<43>>)
    @@ (9486 :> <<43>>)
    @@ (9487 :> <<43>>)
    @@ (9488 :> <<43>>)
    @@ (9492 :> <<43>>)
    @@ (9496 :> <<43>>)
    @@ (9500 :> <<43>>)
    @@ (9508 :> <<43>>)
    @@ (9516 :> <<43>>)
    @@ (9524 :> <<43>>)
    @@ (9532 :> <<43>>)
    @@ (9552 :> <<61>>)
    @@ (9553 :> <<124>>)
    @@ (9554 :> <<43>>)
    @@ (9555 :> <<43>>)
    @@ (9556 :> <<43>>)
    @@ (9557 :> <<43>>)
    @@ (9558 :> <<43>>)
    @@ (9559 :> <<43>>)
    @@ (9560 :> <<43>>)
    @@ (9561 :> <<43>>)
    @@ (9562 :> <<43>>)
    @@ (9563 :> <<43>>)
    @@ (9564 :> <<43>>)
    @@ (9565 :> <<43>>)
    @@ (9566 :> <<43>>)
    @@ (9567 :> <<43>>)
    @@ (9568 :> <<43>>)
    @@ (9569 :> <<43>>)
    @@ (9570 :> <<43>>)
    @@ (9571 :> <<43>>)
    @@ (9572 :> <<43>>)
    @@ (9573 :> <<43>>)
    @@ (9574 :> <<43>>)
    @@ (9575 :> <<43>>)
    @@ (9576 :> <<43>>)
    @@ (9577 :> <<43>>)
    @@ (9578 :> <<43>>)
    @@ (9579 :> <<43>>)
    @@ (9580 :> <<43>>)
    @@ (9608 :> <<35>>)
    @@ (9617 :> <<46>>)
    @@ (9618 :> <<43>>)
    @@ (9619 :> <<35>>)
    @@ (9600 :> <<94>>)
    @@ (9604 :> <<95>>)
    @@ (9612 :> <<124>>)
    @@ (9616 :> <<124>>)
    @@ (9733 :> <<42>>)
    @@ (9734 :> <<42>>)
    @@ (9744 :> <<91, 32, 93>>)
    @@ (9745 :> <<91, 120, 93>>)
    @@ (9746 :> <<91, 88, 93>>)
    @@ (10003 :> <<118>>)
    @@ (10004 :> <<118>>)
    @@ (10005 :> <<120>>)
    @@ (10006 :> <<120>>)
    @@ (10007 :> <<120>>)
    @@ (10008 :> <<120>>)
    @@ (10016 :> <<43>>)
    @@ (10070 :> <<42>>)
    @@ (10084 :> <<60, 51>>)
    @@ (166 :> <<124>>)
    @@ (167 :> <<83>>)
    @@ (182 :> <<80>>)
    @@ (172 :> <<45>>)
    @@ (175 :> <<45>>)

\* Keys of the "UNIVERSAL LOOKALIKES" section of LOOKALIKE_MAP.
UniversalKeys ==
    {8216, 8217, 8218, 8219, 8220, 8221, 8222, 8223, 8242, 8243,
     8244, 8245, 8246, 8247, 171, 187, 8249, 8250, 8208, 8209,
     8210, 8211, 8212, 8213, 8722, 65112, 65123, 65293, 160, 8192,
     8193, 8194, 8195, 8196, 8197, 8198, 8199, 8200, 8201, 8202,
     8203, 8239, 8287, 12288, 65279, 8230, 8942, 8943, 183, 8226,
     8227, 8228, 8229, 8231, 8592, 8593, 8594, 8595, 8596, 8656,
     8658, 8660, 215, 8800, 8804, 8805, 8776, 8734, 8240, 190,
     8531, 8532, 8364, 8356, 8377, 8381, 8383, 169, 174, 8482,
     8480, 8451, 8457, 178, 179, 185, 8304, 8308, 8309, 8310,
     8311, 8312, 8313, 8320, 8321, 8322, 8323, 8324, 8325, 8326,
     8327, 8328, 8329, 8214, 8215, 8259, 8260, 8274, 8413, 8470,
     8471, 8478, 8756, 8757}

(***************************************************************************)
(* accent_fallback_map.py: same shape as LOOKALIKE_MAP, accented letters   *)
(* to their base letters.                                                  *)
(***************************************************************************)
InitialAccentFallbackMap ==
    (227 :> <<97>>)

\* Tables of that shape the module may hold: one whose keys are apart from
\* those of LOOKALIKE_MAP, and one that also gives a fallback to two keys
\* of LOOKALIKE_MAP.
AccentMapChoices ==
    { InitialAccentFallbackMap,
      (8216 :> <<97>>) @@ (8274 :> <<97>>) @@ InitialAccentFallbackMap }

(***************************************************************************)
(* The encoding runtime.                                                   *)
(*                                                                         *)
(* KnownChars is every code point a run of the model can meet: the input   *)
(* alphabet closed under compatibility decomposition, canonical            *)
(* composition and the replacement texts.  The tables below are the        *)
(* runtime's data restricted to KnownChars.                                *)
(***************************************************************************)
KnownChars ==
    {10, 37, 39, 40, 41, 50, 63, 73, 77, 78, 82,
     84, 97, 124, 178, 205, 209, 225, 227, 296, 323,
     340, 769, 771, 7742, 8203, 8216, 8274, 8377, 8482, 9474,
     20013}

\* Full compatibility decomposition of the code points that have one.
Decomposition ==
    (178 :> <<50>>)
    @@ (205 :> <<73, 769>>)
    @@ (209 :> <<78, 771>>)
    @@ (225 :> <<97, 769>>)
    @@ (227 :> <<97, 771>>)
    @@ (296 :> <<73, 771>>)
    @@ (323 :> <<78, 769>>)
    @@ (340 :> <<82, 769>>)
    @@ (7742 :> <<77, 769>>)
    @@ (8482 :> <<84, 77>>)

\* Canonical combining class of the code points where it is not 0.
CombiningClassTable ==
    (769 :> 230)
    @@ (771 :> 230)

\* Primary composites: <<starter, mark>> -> composed code point.
Composition ==
    (<<73, 769>> :> 205)
    @@ (<<73, 771>> :> 296)
    @@ (<<77, 769>> :> 7742)
    @@ (<<78, 769>> :> 323)
    @@ (<<78, 771>> :> 209)
    @@ (<<82, 769>> :> 340)
    @@ (<<97, 769>> :> 225)
    @@ (<<97, 771>> :> 227)

\* Codec name -> outcome of encoding the empty string (probe), the code
\* points a strict encode accepts (repertoire), and the code points on
\* which the codec fails with a UnicodeError that is not a
\* UnicodeEncodeError (failing).  A name outside the domain is unknown to
\* the runtime: LookupError.
CodecRegistry ==
    (<<"c", "p", "4", "3", "7">> :>
        [probe |-> "ok",
         repertoire |-> {10, 37, 39, 40, 41, 50, 63, 73, 77, 78, 82, 84, 97,
                        124, 178, 209, 225, 9474},
         failing |-> {}])
    @@ (<<"c", "p", "8", "5", "0">> :>
        [probe |-> "ok",
         repertoire |-> {10, 37, 39, 40, 41, 50, 63, 73, 77, 78, 82, 84, 97,
                        124, 178, 205, 209, 225, 227, 9474},
         failing |-> {}])
    @@ (<<"c", "p", "8", "5", "2">> :>
        [probe |-> "ok",
         repertoire |-> {10, 37, 39, 40, 41, 50, 63, 73, 77, 78, 82, 84, 97,
                        124, 205, 225, 323, 340, 9474},
         failing |-> {}])
    @@ (<<"c", "p", "8", "5", "8">> :>
        [probe |-> "ok",
         repertoire |-> {10, 37, 39, 40, 41, 50, 63, 73, 77, 78, 82, 84, 97,
                        124, 178, 205, 209, 225, 227, 9474},
         failing |-> {}])
    @@ (<<"c", "p", "8", "6", "0">> :>
        [probe |-> "ok",
         repertoire |-> {10, 37, 39, 40, 41, 50, 63, 73, 77, 78, 82, 84, 97,
                        124, 178, 205, 209, 225, 227, 9474},
         failing |-> {}])
    @@ (<<"c", "p", "8", "6", "3">> :>
        [probe |-> "ok",
         repertoire |-> {10, 37, 39, 40, 41, 50, 63, 73, 77, 78, 82, 84, 97,
                        124, 178, 9474},
         failing |-> {}])
    @@ (<<"c", "p", "8", "6", "5">> :>
        [probe |-> "ok",
         repertoire |-> {10, 37, 39, 40, 41, 50, 63, 73, 77, 78, 82, 84, 97,
                        124, 178, 209, 225, 9474},
         failing |-> {}])
    @@ (<<"c", "p", "8", "6", "6">> :>
        [probe |-> "ok",
         repertoire |-> {10, 37, 39, 40, 41, 50, 63, 73, 77, 78, 82, 84, 97,
                        124, 9474},
         failing |-> {}])
    @@ (<<"c", "p", "9", "3", "2">> :>
        [probe |-> "ok",
         repertoire |-> {10, 37, 39, 40, 41, 50, 63, 73, 77, 78, 82, 84, 97,
                        124, 8216, 9474, 20013},
         failing |-> {}])
    @@ (<<"c", "p", "1", "2", "5", "0">> :>
        [probe |-> "ok",
         repertoire |-> {10, 37, 39, 40, 41, 50, 63, 73, 77, 78, 82, 84, 97,
                        124, 205, 225, 323, 340, 8216, 8482},
         failing |-> {}])
    @@ (<<"c", "p", "1", "2", "5", "1">> :>
        [probe |-> "ok",
         repertoire |-> {10, 37, 39, 40, 41, 50, 63, 73, 77, 78, 82, 84, 97,
                        124, 8216, 8482},
         failing |-> {}])
    @@ (<<"c", "p", "1", "2", "5", "2">> :>
        [probe |-> "ok",
         repertoire |-> {10, 37, 39, 40, 41, 50, 63, 73, 77, 78, 82, 84, 97,
                        124, 178, 205, 209, 225, 227, 8216, 8482},
         failing |-> {}])
    @@ (<<"c", "p", "1", "2", "5", "3">> :>
        [probe |-> "ok",
         repertoire |-> {10, 37, 39, 40, 41, 50, 63, 73, 77, 78, 82, 84, 97,
                        124, 178, 8216, 8482},
         failing |-> {}])
    @@ (<<"c", "p", "1", "2", "5", "4">> :>
        [probe |-> "ok",
         repertoire |-> {10, 37, 39, 40, 41, 50, 63, 73, 77, 78, 82, 84, 97,
                        124, 178, 205, 209, 225, 227, 8216, 8482},
         failing |-> {}])
    @@ (<<"c", "p", "1", "2", "5", "5">> :>
        [probe |-> "ok",
         repertoire |-> {10, 37, 39, 40, 41, 50, 63, 73, 77, 78, 82, 84, 97,
                        124, 178, 8216, 8482},
         failing |-> {}])
    @@ (<<"c", "p", "1", "2", "5", "6">> :>
        [probe |-> "ok",
         repertoire |-> {10, 37, 39, 40, 41, 50, 63, 73, 77, 78, 82, 84, 97,
                        124, 178, 8216, 8482},
         failing |-> {}])
    @@ (<<"c", "p", "1", "2", "5", "7">> :>
        [probe |-> "ok",
         repertoire |-> {10, 37, 39, 40, 41, 50, 63, 73, 77, 78, 82, 84, 97,
                        124, 178, 323, 8216, 8482},
         failing |-> {}])
    @@ (<<"c", "p", "1", "2", "5", "8">> :>
        [probe |-> "ok",
         repertoire |-> {10, 37, 39, 40, 41, 50, 63, 73, 77, 78, 82, 84, 97,
                        124, 178, 205, 209, 225, 769, 771, 8216, 8482},
         failing |-> {}])
    @@ (<<"i", "s", "o", "-", "8", "8", "5", "9", "-", "1">> :>
        [probe |-> "ok",
         repertoire |-> {10, 37, 39, 40, 41, 50, 63, 73, 77, 78, 82, 84, 97,
                        124, 178, 205, 209, 225, 227},
         failing |-> {}])
    @@ (<<"i", "s", "o", "-", "8", "8", "5", "9", "-", "2">> :>
        [probe |-> "ok",
         repertoire |-> {10, 37, 39, 40, 41, 50, 63, 73, 77, 78, 82, 84, 97,
                        124, 205, 225, 323, 340},
         failing |-> {}])
    @@ (<<"i", "s", "o", "-", "8", "8", "5", "9", "-", "7">> :>
        [probe |-> "ok",
         repertoire |-> {10, 37, 39, 40, 41, 50, 63, 73, 77, 78, 82, 84, 97,
                        124, 178, 8216},
         failing |-> {}])
    @@ (<<"i", "s", "o", "-", "8", "8", "5", "9", "-", "1", "5">> :>
        [probe |-> "ok",
         repertoire |-> {10, 37, 39, 40, 41, 50, 63, 73, 77, 78, 82, 84, 97,
                        124, 178, 205, 209, 225, 227},
         failing |-> {}])
    @@ (<<"l", "a", "t", "i", "n", "-", "1">> :>
        [probe |-> "ok",
         repertoire |-> {10, 37, 39, 40, 41, 50, 63, 73, 77, 78, 82, 84, 97,
                        124, 178, 205, 209, 225, 227},
         failing |-> {}])
    @@ (<<"u", "t", "f", "-", "8">> :>
        [probe |-> "ok",
         repertoire |-> KnownChars,
         failing |-> {}])
    @@ (<<"c", "p", "8", "6", "4">> :>
        [probe |-> "ok",
         repertoire |-> {10, 39, 40, 41, 50, 63, 73, 77, 78, 82, 84, 97, 124,
                        9474},
         failing |-> {}])
    @@ (<<"u", "n", "d", "e", "f", "i", "n", "e", "d">> :>
        [probe |-> "UnicodeError",
         repertoire |-> {},
         failing |-> {}])
    @@ (<<"i", "d", "n", "a">> :>
        [probe |-> "ok",
         repertoire |-> {10, 37, 39, 40, 41, 50, 63, 73, 77, 78, 82, 84, 97,
                        124, 178, 205, 209, 225, 227, 296, 323, 340, 769, 771, 7742,
                        8216, 8274, 8377, 8482, 9474, 20013},
         failing |-> {8203}])

\* "".encode(codec): "ok", or the exception it raises.
CodecProbe(codec) ==
    IF codec \in DOMAIN CodecRegistry
    THEN CodecRegistry[codec].probe
    ELSE "LookupError"

\* s.encode(codec), strict: "ok", or the exception it raises.  The first
\* code point the codec rejects decides the exception.
Encode(s, codec) ==
    IF CodecProbe(codec) # "ok" THEN CodecProbe(codec)
    ELSE LET bad == {i \in 1..Len(s) : s[i] \notin CodecRegistry[codec].repertoire}
         IN  IF bad = {} THEN "ok"
             ELSE LET first == CHOOSE i \in bad : \A j \in bad : i <= j
                  IN  IF s[first] \in CodecRegistry[codec].failing
                      THEN "UnicodeError"
                      ELSE "UnicodeEncodeError"

CombiningClass(c) ==
    IF c \in DOMAIN CombiningClassTable THEN CombiningClassTable[c] ELSE 0

\* NFKC step 1: replace every code point by its full compatibility
\* decomposition.
RECURSIVE Decompose(_)
Decompose(s) ==
    IF s = <<>> THEN <<>>
    ELSE (IF Head(s) \in DOMAIN Decomposition
          THEN Decomposition[Head(s)]
          ELSE <<Head(s)>>)
         \o Decompose(Tail(s))

\* NFKC step 2: canonical ordering.  Adjacent marks are exchanged while a
\* mark of higher combining class precedes one of lower, non-zero class.
RECURSIVE CanonicalOrder(_)
CanonicalOrder(s) ==
    LET swaps == {i \in 1..(Len(s) - 1) :
                     /\ CombiningClass(s[i + 1]) # 0
                     /\ CombiningClass(s[i]) > CombiningClass(s[i + 1])}
    IN  IF swaps = {} THEN s
        ELSE LET i == CHOOSE k \in swaps : \A j \in swaps : k <= j
             IN  CanonicalOrder([k \in 1..Len(s) |->
                                    IF k = i THEN s[i + 1]
                                    ELSE IF k = i + 1 THEN s[i]
                                    ELSE s[k]])

\* NFKC step 3: canonical composition.  out is the text composed so far,
\* starterPos the position in out of the last starter (0: none), lastClass
\* the combining class of the last code point appended, rest the input
\* still to read.
RECURSIVE ComposeFrom(_, _, _, _)
ComposeFrom(out, starterPos, lastClass, rest) ==
    IF rest = <<>> THEN out
    ELSE LET ch == Head(rest)
             chClass == CombiningClass(ch)
             canCompose ==
                 /\ starterPos # 0
                 /\ <<out[starterPos], ch>> \in DOMAIN Composition
                 /\ \/ lastClass < chClass
                    \/ starterPos = Len(out)
         IN  IF canCompose
             THEN ComposeFrom([out EXCEPT ![starterPos] = Composition[<<out[starterPos], ch>>]],
                              starterPos, lastClass, Tail(rest))
             ELSE ComposeFrom(Append(out, ch),
                              IF chClass = 0 THEN Len(out) + 1 ELSE starterPos,
                              chClass, Tail(rest))

Compose(s) == ComposeFrom(<<>>, 0, 0, s)

\* unicodedata.normalize("NFKC", text)
normalize_unicode(text) == Compose(CanonicalOrder(Decompose(text)))

\* "".join(parts)
RECURSIVE Join(_)
Join(parts) ==
    IF parts = <<>> THEN <<>> ELSE Head(parts) \o Join(Tail(parts))

(***************************************************************************)
(* Inputs of the model.                                                    *)
(***************************************************************************)
\* Code points input texts are drawn from:
\*   a, superscript two, a with tilde, combining acute accent, zero width
\*   space, left single quotation mark, commercial minus sign, indian rupee
\*   sign, trade mark sign, box drawings light vertical, CJK ideograph 4E2D.
Alphabet == {97, 178, 227, 769, 8203, 8216, 8274, 8377, 8482, 9474, 20013}

Texts == UNION {[1..n -> Alphabet] : n \in 0..MaxLen}

CodepageChoices ==
    { <<"C", "P", "4", "3", "7">>,
      <<"I", "S", "O", "_", "8", "8", "5", "9", "-", "1">>,
      <<"C", "P", "1", "2", "5", "8">>,
      <<"C", "P", "8", "6", "4">>,
      <<"U", "T", "F", "-", "8">>,
      <<"N", "O", "T", "_", "A", "_", "R", "E", "A", "L", "_",
        "C", "O", "D", "E", "P", "A", "G", "E">>,
      <<"u", "n", "d", "e", "f", "i", "n", "e", "d">>,
      <<"i", "d", "n", "a">> }

\* "?" (the default of replace_char) and a placeholder no legacy codepage
\* of the model encodes.
DefaultPlaceholder == <<63>>

PlaceholderChoices == {DefaultPlaceholder, <<20013>>}

NoResult == [kind |-> "none", value |-> <<>>, exc |-> "none"]

Returned(v) == [kind |-> "return", value |-> v, exc |-> "none"]

Raised(e) == [kind |-> "raise", value |-> <<>>, exc |-> e]

(***************************************************************************)
(* State of one call chain of transcode_to_codepage.                       *)
(***************************************************************************)
VARIABLES
    text,             \* argument: the text to transcode
    codepage,         \* argument: the codepage name
    replace_char,     \* argument: the placeholder
    apply_lookalikes, \* argument: look-alike tier enabled
    apply_accents,    \* argument: accent tier enabled
    pc,               \* position in the body of transcode_to_codepage
    normalized,       \* local: NFKC form of text
    codec,            \* local: resolved codec name
    idx,              \* position of the loop in normalized
    result_chars,     \* local: one piece of output per character handled
    tiers,            \* for each piece of result_chars, the tier that gave it
    tried,            \* encode attempts made for the character last worked on
    lookups,          \* fallback tables consulted for that character
    result,           \* outcome of the call: returned value or exception
    pass,             \* number of the call in the chain
    prev              \* outcome of the previous call of the chain

(***************************************************************************)
(* State of one call of get_unmappable_chars, made with the same text and  *)
(* codepage arguments.                                                     *)
(***************************************************************************)
VARIABLES
    u_pc,             \* position in the body of get_unmappable_chars
    u_codec,          \* local: resolved codec name
    u_normalized,     \* local: NFKC form of text
    u_idx,            \* position of the loop in u_normalized
    unmappable,       \* local: the characters reported so far
    u_result          \* outcome of the call: returned list or exception

(***************************************************************************)
(* State of two calls of get_codec_name, on two spellings of a name.       *)
(***************************************************************************)
VARIABLES
    name,             \* argument of the first call
    alias,            \* argument of the second call: another spelling of name
    name_codec,       \* outcome of the first call
    alias_codec       \* outcome of the second call

(***************************************************************************)
(* State of one call of map_multiplier.                                    *)
(***************************************************************************)
VARIABLES
    val,              \* argument: None, an int or a str
    m_result          \* outcome of the call

(***************************************************************************)
(* State of one printer adapter: the fields of the adapter object, its     *)
(* configuration, and the device handles it holds open.                    *)
(***************************************************************************)
VARIABLES
    _keepalive,       \* field: keep one connection between operations
    _printer,         \* field: "None", or the stored printer object: a
                      \* "connection", "closed" once close() was called on it
    _status_interval, \* field: seconds between status checks, 0 for none
    _cancel_status,   \* field: a periodic status check is scheduled
    _status,          \* field: outcome of the last status check
    _lock,            \* field: the operation holding the adapter's lock
    config_codepage,  \* _config.codepage, <<>> when unset
    line_width,       \* _config.line_width
    connection_type,  \* _config.connection_type
    keepalive,        \* argument of the last call of start
    connections,      \* device handles open
    ops               \* operations requested of the adapter so far

(***************************************************************************)
(* State of one call of print_text and of one control operation.           *)
(***************************************************************************)
VARIABLES
    p_pc,             \* position in the body of print_text
    p_text,           \* argument: the text to print
    p_encoding,       \* argument: the encoding override, <<>> for None
    text_to_print,    \* local: the wrapped text
    p_result,         \* outcome of the call
    wire,             \* calls made on the printer object to emit text
    p_printer,        \* local printer of _do_print: the connection it holds
    c_pc,             \* position in the body of feed, cut or beep
    owned             \* local: the operation opened its own connection

(***************************************************************************)
(* State of one request to print a text: a notification, a call of the     *)
(* print_text_utf8 service, or a print_text_utf8 device action.            *)
(***************************************************************************)
VARIABLES
    via,              \* the entry point the request came through
    e_pc,             \* position in the body of the entry point
    message,          \* argument: the message
    title,            \* argument: the title, <<>> when absent
    utf8,             \* argument: the utf8 flag of a notification
    encoding,         \* argument: the encoding asked for, <<>> when absent
    e_result          \* outcome of the request

(***************************************************************************)
(* State of one call of _wrap_text.                                        *)
(***************************************************************************)
VARIABLES
    w_text,           \* argument: the text to wrap
    w_result          \* outcome of the call

(***************************************************************************)
(* State of one call of _build_usb_device_choices.                         *)
(***************************************************************************)
VARIABLES
    printers,           \* argument: the discovered devices, a list of dicts
    include_browse_all, \* argument: add the "browse all" choice
    device_choices,     \* local: choice key -> label
    vid_pid_counts,     \* local: VID:PID -> devices without serial seen
    b_idx,              \* position of the loop in printers
    b_result            \* outcome of the call

(***************************************************************************)
(* State of one call of UsbPrinterAdapter._connect.                        *)
(***************************************************************************)
VARIABLES
    attempt,            \* the loop variable
    opens,              \* outcomes of the open attempts made so far
    last_exc,           \* local: the exception of the last failed attempt
    _last_error_errno,  \* field: errno of the last failed attempt
    k_result            \* outcome of the call

(***************************************************************************)
(* State of the status reporting of the adapter.                           *)
(***************************************************************************)
VARIABLES
    timers,             \* periodic status checks scheduled with the event loop
    _status_listeners,  \* field: the callbacks registered, in order
    heard,              \* the last event that set _status and the callbacks it made
    lifecycle,          \* the last of __init__, start and stop to return
    s_pc                \* the calls of start that are suspended, by position

(***************************************************************************)
(* State of the apply_lookalike_map and apply_accent_fallback calls.       *)
(***************************************************************************)
VARIABLES
    l_pc,               \* position in apply_lookalike_map
    l_idx,              \* local: index of the character its loop is at (1-based)
    l_chars,            \* local "result": the pieces appended so far
    l_result,           \* what apply_lookalike_map returned
    f_pc,               \* position in apply_accent_fallback
    f_codec,            \* local "codec": get_codec_name(codepage)
    f_idx,              \* local: index of the character its loop is at (1-based)
    f_chars,            \* local "result": the pieces appended so far
    f_result            \* what apply_accent_fallback returned or raised

args == <<codepage, replace_char, apply_lookalikes, apply_accents>>

locals == <<normalized, codec, idx, result_chars, tiers, tried, lookups>>

\* The transcode_to_codepage call.
transcodeVars == <<text, args, pc, locals, result, pass, prev>>

\* The get_unmappable_chars call.
reportVars == <<u_pc, u_codec, u_normalized, u_idx, unmappable, u_result>>

\* The two get_codec_name calls.
resolverVars == <<name, alias, name_codec, alias_codec>>

\* The map_multiplier call.
multiplierVars == <<val, m_result>>

\* The adapter object and its configuration.
adapterVars ==
    <<_keepalive, _printer, _status_interval, _cancel_status, _status, _lock,
      keepalive, connections, ops>>

configVars == <<config_codepage, line_width, connection_type>>

\* The print_text call and what it sends.
printVars ==
    <<p_pc, p_text, p_encoding, text_to_print, p_result, wire, p_printer>>

\* The control operation.
controlVars == <<c_pc, owned>>

\* The request to print.
requestVars == <<via, e_pc, message, title, utf8, encoding, e_result>>

\* The printer side of the integration.
\* The status subscriptions of the adapter and what its listeners heard.
watchVars == <<timers, _status_listeners, heard, lifecycle, s_pc>>

deviceVars ==
    <<adapterVars, configVars, watchVars, printVars, controlVars, requestVars>>

\* The _wrap_text call.
wrapVars == <<w_text, w_result>>

\* The _build_usb_device_choices call.
choiceVars ==
    <<printers, include_browse_all, device_choices, vid_pid_counts, b_idx,
      b_result>>

\* The apply_lookalike_map call.
lookalikeVars == <<l_pc, l_idx, l_chars, l_result>>

\* The apply_accent_fallback call.
fallbackVars == <<f_pc, f_codec, f_idx, f_chars, f_result>>

applyVars == <<lookalikeVars, fallbackVars>>

\* The locals of the UsbPrinterAdapter._connect call.
connectLocals == <<attempt, opens, last_exc, k_result>>

\* The UsbPrinterAdapter._connect call.
connectVars == <<attempt, opens, last_exc, _last_error_errno, k_result>>

(***************************************************************************)
(* Concurrent calls of the print and control operations of one adapter.    *)
(***************************************************************************)
VARIABLES
    tasks               \* for each caller, the call it makes and how far it is

taskVars == <<tasks>>

\* Calls of helper functions made on their own, and concurrent callers.
aside == <<wrapVars, choiceVars, applyVars, connectVars, taskVars>>

\* What lies beyond the two calls on a text.
beyond == <<resolverVars, multiplierVars, deviceVars, aside>>

\* Everything transcode_to_codepage has no access to.
outside == <<tables, reportVars, beyond>>

vars == <<transcodeVars, outside>>

\* The module-level tables as the import of text_utils leaves them.
TablesLoaded ==
    /\ CODEPAGE_TO_CODEC = InitialCodepageToCodec
    /\ LOOKALIKE_MAP = InitialLookalikeMap
    /\ ACCENT_FALLBACK_MAP = InitialAccentFallbackMap

\* No call of get_unmappable_chars is made.
ReportIdle ==
    /\ u_pc = "idle"
    /\ u_codec = <<>>
    /\ u_normalized = <<>>
    /\ u_idx = 0
    /\ unmappable = <<>>
    /\ u_result = NoResult

\* No call of get_codec_name is made on its own.
ResolverIdle ==
    /\ name = <<>>
    /\ alias = <<>>
    /\ name_codec = NoResult
    /\ alias_codec = NoResult

\* Python values handed to map_multiplier.
NoneValue == [type |-> "NoneType", int |-> 0, str |-> <<>>]

IntValue(n) == [type |-> "int", int |-> n, str |-> <<>>]

StrValue(t) == [type |-> "str", int |-> 0, str |-> t]

\* No call of map_multiplier is made.
MultiplierIdle ==
    /\ val = NoneValue
    /\ m_result = NoResult

\* The fields of an adapter as __init__ leaves them.
AdapterConstructed ==
    /\ _keepalive = FALSE
    /\ _printer = "None"
    /\ _status_interval = 0
    /\ _cancel_status = FALSE
    /\ _status = "None"
    /\ _lock = "free"
    /\ keepalive = FALSE
    /\ connections = 0
    /\ ops = 0

\* No event has set _status.
NoEvent ==
    [event |-> "none", before |-> "None", after |-> "None",
     listeners |-> <<>>, calls |-> <<>>]

\* No call of start is suspended.
NoStarts == [at \in {"connect", "connected", "probe"} |-> 0]

\* Nothing is scheduled, nobody listens.
WatchIdle ==
    /\ timers = 0
    /\ _status_listeners = <<>>
    /\ heard = NoEvent
    /\ lifecycle = "constructed"
    /\ s_pc = NoStarts

\* NetworkPrinterConfig with its defaults.
ConfigDefault ==
    /\ config_codepage = <<>>
    /\ line_width = 48
    /\ connection_type = "network"

\* UsbPrinterConfig with its defaults.
UsbConfigDefault ==
    /\ config_codepage = <<>>
    /\ line_width = 48
    /\ connection_type = "usb"

\* No call of print_text is made, nothing was sent.
PrintIdle ==
    /\ p_pc = "idle"
    /\ p_text = <<>>
    /\ p_encoding = <<>>
    /\ text_to_print = <<>>
    /\ p_result = NoResult
    /\ wire = <<>>
    /\ p_printer = "None"

\* No control operation is in progress.
ControlIdle ==
    /\ c_pc = "idle"
    /\ owned = FALSE

\* No request to print is made.
RequestIdle ==
    /\ via = "none"
    /\ e_pc = "idle"
    /\ message = <<>>
    /\ title = <<>>
    /\ utf8 = FALSE
    /\ encoding = <<>>
    /\ e_result = NoResult

\* No printer is in use.
DeviceIdle ==
    /\ AdapterConstructed
    /\ ConfigDefault
    /\ WatchIdle
    /\ PrintIdle
    /\ ControlIdle
    /\ RequestIdle

\* No call of _wrap_text is made on its own.
WrapIdle ==
    /\ w_text = <<>>
    /\ w_result = NoResult

\* No call of _build_usb_device_choices is made.
ChoicesIdle ==
    /\ printers = <<>>
    /\ include_browse_all = TRUE
    /\ device_choices = <<>>
    /\ vid_pid_counts = <<>>
    /\ b_idx = 0
    /\ b_result = NoResult

\* The absence of an exception or of an errno.
None == [usb_error |-> FALSE, errno |-> 0, message |-> "none"]

\* No call of UsbPrinterAdapter._connect is made on its own.
ConnectIdle ==
    /\ attempt = 0
    /\ opens = <<>>
    /\ last_exc = None
    /\ _last_error_errno = 0
    /\ k_result = [kind |-> "none", attempt |-> 0, exc |-> None]

\* Two callers of one adapter, each making one call.
Tasks == {1, 2}

\* A caller that has called nothing.
NoTask ==
    [op |-> "none", pc |-> "idle", feed |-> NoneValue, cut |-> NoneValue,
     printer |-> "None", owned |-> FALSE, attempt |-> 0, sent |-> <<>>,
     opened |-> 0, closed |-> 0, result |-> "none"]

\* No operation has been called.
TasksIdle == tasks = [t \in Tasks |-> NoTask]

\* Neither apply_lookalike_map nor apply_accent_fallback is called.
ApplyIdle ==
    /\ l_pc = "idle"
    /\ l_idx = 0
    /\ l_chars = <<>>
    /\ l_result = NoResult
    /\ f_pc = "idle"
    /\ f_codec = <<>>
    /\ f_idx = 0
    /\ f_chars = <<>>
    /\ f_result = NoResult

\* No helper function is called on its own and no caller has called.
AsideIdle ==
    /\ WrapIdle
    /\ ChoicesIdle
    /\ ApplyIdle
    /\ ConnectIdle
    /\ TasksIdle

\* Nothing but the calls on a text is in progress.
BeyondIdle ==
    /\ ResolverIdle
    /\ MultiplierIdle
    /\ DeviceIdle
    /\ AsideIdle

\* The locals of transcode_to_codepage before the call starts.
TranscodeEntry ==
    /\ pc = "entry"
    /\ normalized = <<>>
    /\ codec = <<>>
    /\ idx = 0
    /\ result_chars = <<>>
    /\ tiers = <<>>
    /\ tried = <<>>
    /\ lookups = <<>>
    /\ result = NoResult
    /\ pass = 1
    /\ prev = NoResult

Init ==
    /\ text \in Texts
    /\ codepage \in CodepageChoices
    /\ replace_char \in PlaceholderChoices
    /\ apply_lookalikes \in BOOLEAN
    /\ apply_accents \in BOOLEAN
    /\ TranscodeEntry
    /\ TablesLoaded
    /\ ReportIdle
    /\ BeyondIdle

\* transcode_to_codepage called with either table of accent fallbacks
\* loaded.
InitTiers ==
    /\ text \in Texts
    /\ codepage \in CodepageChoices
    /\ replace_char \in PlaceholderChoices
    /\ apply_lookalikes \in BOOLEAN
    /\ apply_accents \in BOOLEAN
    /\ TranscodeEntry
    /\ CODEPAGE_TO_CODEC = InitialCodepageToCodec
    /\ LOOKALIKE_MAP = InitialLookalikeMap
    /\ ACCENT_FALLBACK_MAP \in AccentMapChoices
    /\ ReportIdle
    /\ BeyondIdle

\* The character the loop is at.
char == normalized[idx]

\* result_chars.append(piece); continue
Emit(piece, tier) ==
    /\ result_chars' = Append(result_chars, piece)
    /\ tiers' = Append(tiers, tier)
    /\ idx' = idx + 1
    /\ pc' = "native"
    /\ UNCHANGED <<text, args, normalized, codec, result, pass, prev, outside>>

\* An exception leaves transcode_to_codepage.
Raise(e) ==
    /\ result' = Raised(e)
    /\ pc' = "done"
    /\ UNCHANGED <<text, args, normalized, codec, idx, result_chars, tiers,
                   pass, prev, outside>>

\* Variant of ReturnEmpty: the empty text is tested for only after the
\* codec has been resolved and probed.
ReturnEmpty_AfterProbe ==
    /\ pc = "entry"
    /\ text = <<>>
    /\ normalized' = text
    /\ codec' = get_codec_name(codepage)
    /\ pc' = "probe"
    /\ UNCHANGED <<text, args, idx, result_chars, tiers, tried, lookups, result,
                   pass, prev, outside>>

\* if not text: return text
ReturnEmpty ==
    /\ pc = "entry"
    /\ text = <<>>
    /\ result' = Returned(text)
    /\ pc' = "done"
    /\ UNCHANGED <<text, args, locals, pass, prev, outside>>


\* Variant of Normalize: the cascade runs on the text as given, without
\* NFKC normalization.
Normalize_SkipsNFKC ==
    /\ pc = "entry"
    /\ text # <<>>
    /\ normalized' = text
    /\ codec' = get_codec_name(codepage)
    /\ pc' = "probe"
    /\ UNCHANGED <<text, args, idx, result_chars, tiers, tried, lookups, result,
                   pass, prev, outside>>

\* normalized = normalize_unicode(text); codec = get_codec_name(codepage)
Normalize ==
    /\ pc = "entry"
    /\ text # <<>>
    /\ normalized' = normalize_unicode(text)
    /\ codec' = get_codec_name(codepage)
    /\ pc' = "probe"
    /\ UNCHANGED <<text, args, idx, result_chars, tiers, tried, lookups, result,
                   pass, prev, outside>>


\* Variant of ProbeCodec: an unknown codec returns the text as given
\* instead of the normalized text.
ProbeCodec_ReturnsInput ==
    /\ pc = "probe"
    /\ LET outcome == CodecProbe(codec)
       IN  CASE outcome = "ok" ->
                  /\ result_chars' = <<>>
                  /\ tiers' = <<>>
                  /\ idx' = 1
                  /\ pc' = "native"
                  /\ UNCHANGED <<text, args, normalized, codec, tried, lookups,
                                 result, pass, prev, outside>>
             [] outcome = "LookupError" ->
                  /\ result' = Returned(text)
                  /\ pc' = "done"
                  /\ UNCHANGED <<text, args, locals, pass, prev, outside>>
             [] OTHER ->
                  /\ UNCHANGED <<tried, lookups>>
                  /\ Raise(outcome)

\* try: "".encode(codec)  except LookupError: return normalized
ProbeCodec ==
    /\ pc = "probe"
    /\ LET outcome == CodecProbe(codec)
       IN  CASE outcome = "ok" ->
                  /\ result_chars' = <<>>
                  /\ tiers' = <<>>
                  /\ idx' = 1
                  /\ pc' = "native"
                  /\ UNCHANGED <<text, args, normalized, codec, tried, lookups,
                                 result, pass, prev, outside>>
             [] outcome = "LookupError" ->
                  /\ result' = Returned(normalized)
                  /\ pc' = "done"
                  /\ UNCHANGED <<text, args, locals, pass, prev, outside>>
             [] OTHER ->
                  /\ UNCHANGED <<tried, lookups>>
                  /\ Raise(outcome)

\* The log of table lookups after a tier has evaluated its condition
\* "flag and char in table": the table is read only when the flag is set.
Consulted(flag, which, table) ==
    IF flag
    THEN Append(lookups, [table |-> which, hit |-> char \in DOMAIN table])
    ELSE lookups

\* The character falls through to the step at position next.
FallThrough(next) ==
    /\ pc' = next
    /\ UNCHANGED <<text, args, normalized, codec, idx, result_chars, tiers,
                   result, pass, prev, outside>>


\* Variant of TryNative: a character the codec cannot encode goes straight
\* to the accent tier, the look-alike tier is skipped.
TryNative_SkipsLookalike ==
    /\ pc = "native"
    /\ idx <= Len(normalized)
    /\ tried' = <<"native">>
    /\ lookups' = <<>>
    /\ LET outcome == Encode(<<char>>, codec)
       IN  CASE outcome = "ok" -> Emit(<<char>>, "native")
             [] outcome = "UnicodeEncodeError" -> FallThrough("accent")
             [] OTHER -> Raise(outcome)

\* for char in normalized: try: char.encode(codec) ... except UnicodeEncodeError
TryNative ==
    /\ pc = "native"
    /\ idx <= Len(normalized)
    /\ tried' = <<"native">>
    /\ lookups' = <<>>
    /\ LET outcome == Encode(<<char>>, codec)
       IN  CASE outcome = "ok" -> Emit(<<char>>, "native")
             [] outcome = "UnicodeEncodeError" -> FallThrough("lookalike")
             [] OTHER -> Raise(outcome)


\* Variant of TryLookalike: the replacement is emitted without verifying
\* that the codec can encode it.
TryLookalike_NoVerify ==
    /\ pc = "lookalike"
    /\ lookups' = Consulted(apply_lookalikes, "LOOKALIKE_MAP", LOOKALIKE_MAP)
    /\ tried' = tried
    /\ IF apply_lookalikes /\ char \in DOMAIN LOOKALIKE_MAP
       THEN Emit(LOOKALIKE_MAP[char], "lookalike")
       ELSE FallThrough("accent")

\* Variant of TryLookalike: only the first character of the replacement is
\* emitted.
TryLookalike_Truncates ==
    /\ pc = "lookalike"
    /\ lookups' = Consulted(apply_lookalikes, "LOOKALIKE_MAP", LOOKALIKE_MAP)
    /\ IF apply_lookalikes /\ char \in DOMAIN LOOKALIKE_MAP
       THEN LET replacement == LOOKALIKE_MAP[char]
                outcome == Encode(replacement, codec)
            IN  /\ tried' = Append(tried, "lookalike")
                /\ CASE outcome = "ok" ->
                          Emit(IF replacement = <<>> THEN <<>> ELSE <<Head(replacement)>>,
                               "lookalike")
                     [] outcome = "UnicodeEncodeError" -> FallThrough("accent")
                     [] OTHER -> Raise(outcome)
       ELSE /\ tried' = tried
            /\ FallThrough("accent")

\* if apply_lookalikes and char in LOOKALIKE_MAP: try the replacement
TryLookalike ==
    /\ pc = "lookalike"
    /\ lookups' = Consulted(apply_lookalikes, "LOOKALIKE_MAP", LOOKALIKE_MAP)
    /\ IF apply_lookalikes /\ char \in DOMAIN LOOKALIKE_MAP
       THEN LET replacement == LOOKALIKE_MAP[char]
                outcome == Encode(replacement, codec)
            IN  /\ tried' = Append(tried, "lookalike")
                /\ CASE outcome = "ok" -> Emit(replacement, "lookalike")
                     [] outcome = "UnicodeEncodeError" -> FallThrough("accent")
                     [] OTHER -> Raise(outcome)
       ELSE /\ tried' = tried
            /\ FallThrough("accent")


\* Variant of TryAccent: a character without an accent fallback is emitted
\* as it is (as apply_accent_fallback does) instead of reaching the
\* placeholder.
TryAccent_KeepsChar ==
    /\ pc = "accent"
    /\ lookups' = Consulted(apply_accents, "ACCENT_FALLBACK_MAP", ACCENT_FALLBACK_MAP)
    /\ IF apply_accents /\ char \in DOMAIN ACCENT_FALLBACK_MAP
       THEN LET replacement == ACCENT_FALLBACK_MAP[char]
                outcome == Encode(replacement, codec)
            IN  /\ tried' = Append(tried, "accent")
                /\ CASE outcome = "ok" -> Emit(replacement, "accent")
                     [] outcome = "UnicodeEncodeError" -> FallThrough("placeholder")
                     [] OTHER -> Raise(outcome)
       ELSE /\ tried' = tried
            /\ Emit(<<char>>, "accent")

\* Variant of TryAccent: the accent tier looks the character up in
\* LOOKALIKE_MAP once more before it turns to ACCENT_FALLBACK_MAP.
TryAccent_LooksUpAgain ==
    /\ pc = "accent"
    /\ lookups' = IF apply_accents
                  THEN Append(Consulted(TRUE, "LOOKALIKE_MAP", LOOKALIKE_MAP),
                              [table |-> "ACCENT_FALLBACK_MAP",
                               hit |-> char \in DOMAIN ACCENT_FALLBACK_MAP])
                  ELSE lookups
    /\ IF apply_accents /\ char \in DOMAIN ACCENT_FALLBACK_MAP
       THEN LET replacement == ACCENT_FALLBACK_MAP[char]
                outcome == Encode(replacement, codec)
            IN  /\ tried' = Append(tried, "accent")
                /\ CASE outcome = "ok" -> Emit(replacement, "accent")
                     [] outcome = "UnicodeEncodeError" -> FallThrough("placeholder")
                     [] OTHER -> Raise(outcome)
       ELSE /\ tried' = tried
            /\ FallThrough("placeholder")

\* if apply_accents and char in ACCENT_FALLBACK_MAP: try the replacement
TryAccent ==
    /\ pc = "accent"
    /\ lookups' = Consulted(apply_accents, "ACCENT_FALLBACK_MAP", ACCENT_FALLBACK_MAP)
    /\ IF apply_accents /\ char \in DOMAIN ACCENT_FALLBACK_MAP
       THEN LET replacement == ACCENT_FALLBACK_MAP[char]
                outcome == Encode(replacement, codec)
            IN  /\ tried' = Append(tried, "accent")
                /\ CASE outcome = "ok" -> Emit(replacement, "accent")
                     [] outcome = "UnicodeEncodeError" -> FallThrough("placeholder")
                     [] OTHER -> Raise(outcome)
       ELSE /\ tried' = tried
            /\ FallThrough("placeholder")


\* Variant of EmitPlaceholder: the unmappable character itself is emitted.
EmitPlaceholder_KeepsChar ==
    /\ pc = "placeholder"
    /\ UNCHANGED <<tried, lookups>>
    /\ Emit(<<char>>, "placeholder")

\* Variant of EmitPlaceholder: the placeholder is remembered in
\* LOOKALIKE_MAP as the replacement of the character, to spare the cascade
\* the next time the character is met.
EmitPlaceholder_Memoizes ==
    /\ pc = "placeholder"
    /\ result_chars' = Append(result_chars, replace_char)
    /\ tiers' = Append(tiers, "placeholder")
    /\ idx' = idx + 1
    /\ pc' = "native"
    /\ LOOKALIKE_MAP' = (char :> replace_char) @@ LOOKALIKE_MAP
    /\ UNCHANGED <<text, args, normalized, codec, tried, lookups, result, pass,
                   prev, CODEPAGE_TO_CODEC, ACCENT_FALLBACK_MAP, reportVars,
                   beyond>>

\* result_chars.append(replace_char)
EmitPlaceholder ==
    /\ pc = "placeholder"
    /\ UNCHANGED <<tried, lookups>>
    /\ Emit(replace_char, "placeholder")

\* return "".join(result_chars)
Return ==
    /\ pc = "native"
    /\ idx > Len(normalized)
    /\ result' = Returned(Join(result_chars))
    /\ pc' = "done"
    /\ UNCHANGED <<text, args, locals, pass, prev, outside>>

\* The caller transcodes the returned text again with the same arguments:
\* transcode_to_codepage(transcode_to_codepage(t, cp), cp).
Again ==
    /\ pc = "done"
    /\ result.kind = "return"
    /\ pass < MaxPass
    /\ text' = result.value
    /\ prev' = result
    /\ pass' = pass + 1
    /\ pc' = "entry"
    /\ normalized' = <<>>
    /\ codec' = <<>>
    /\ idx' = 0
    /\ result_chars' = <<>>
    /\ tiers' = <<>>
    /\ tried' = <<>>
    /\ lookups' = <<>>
    /\ result' = NoResult
    /\ UNCHANGED <<args, outside>>

Next ==
    \/ ReturnEmpty
    \/ Normalize
    \/ ProbeCodec
    \/ TryNative
    \/ TryLookalike
    \/ TryAccent
    \/ EmitPlaceholder
    \/ Return
    \/ Again

Spec == Init /\ [][Next]_vars

NextTiers ==
    \/ ReturnEmpty
    \/ Normalize
    \/ ProbeCodec
    \/ TryNative
    \/ TryLookalike
    \/ TryAccent
    \/ EmitPlaceholder
    \/ Return

SpecTiers == InitTiers /\ [][NextTiers]_vars

TypeOK ==
    /\ pc \in {"idle", "entry", "probe", "native", "lookalike", "accent", "placeholder", "done"}
    /\ \A i \in 1..Len(text) : text[i] \in KnownChars
    /\ \A i \in 1..Len(normalized) : normalized[i] \in KnownChars
    /\ Len(result_chars) = Len(tiers)
    /\ result.kind \in {"none", "return", "raise"}
    /\ pass \in 1..MaxPass

(***************************************************************************)
(* get_unmappable_chars, one action per step of its body.                  *)
(***************************************************************************)
\* An exception leaves get_unmappable_chars.
ReportRaise(e) ==
    /\ u_result' = Raised(e)
    /\ u_pc' = "done"
    /\ UNCHANGED <<u_codec, u_normalized, u_idx, unmappable, transcodeVars, tables, beyond>>

\* The loop moves on to the next character, with the list as given.
ReportAdvance(list) ==
    /\ unmappable' = list
    /\ u_idx' = u_idx + 1
    /\ UNCHANGED <<u_pc, u_codec, u_normalized, u_result, transcodeVars, tables, beyond>>

\* if not text: return []
ReportEmpty ==
    /\ u_pc = "entry"
    /\ text = <<>>
    /\ u_result' = Returned(<<>>)
    /\ u_pc' = "done"
    /\ UNCHANGED <<u_codec, u_normalized, u_idx, unmappable, transcodeVars, tables, beyond>>

\* codec = get_codec_name(codepage); unmappable = [];
\* normalized = normalize_unicode(text)
ReportSetup ==
    /\ u_pc = "entry"
    /\ text # <<>>
    /\ u_codec' = get_codec_name(codepage)
    /\ unmappable' = <<>>
    /\ u_normalized' = normalize_unicode(text)
    /\ u_idx' = 1
    /\ u_pc' = "scan"
    /\ UNCHANGED <<u_result, transcodeVars, tables, beyond>>


\* Variant of CheckChar: a character is reported every time it is met.
CheckChar_ReportsRepeats ==
    /\ u_pc = "scan"
    /\ u_idx <= Len(u_normalized)
    /\ LET c == u_normalized[u_idx]
           outcome == Encode(<<c>>, u_codec)
       IN  CASE outcome = "ok" -> ReportAdvance(unmappable)
             [] outcome \in {"UnicodeEncodeError", "LookupError"} ->
                  IF c \notin DOMAIN LOOKALIKE_MAP /\ c \notin DOMAIN ACCENT_FALLBACK_MAP
                  THEN ReportAdvance(Append(unmappable, c))
                  ELSE ReportAdvance(unmappable)
             [] OTHER -> ReportRaise(outcome)

\* for char in normalized: skip a character already reported; try
\* char.encode(codec); on UnicodeEncodeError or LookupError report the
\* character unless it is a key of LOOKALIKE_MAP or of ACCENT_FALLBACK_MAP
CheckChar ==
    /\ u_pc = "scan"
    /\ u_idx <= Len(u_normalized)
    /\ LET c == u_normalized[u_idx]
           outcome == Encode(<<c>>, u_codec)
       IN  IF \E i \in 1..Len(unmappable) : unmappable[i] = c
           THEN ReportAdvance(unmappable)
           ELSE CASE outcome = "ok" -> ReportAdvance(unmappable)
                  [] outcome \in {"UnicodeEncodeError", "LookupError"} ->
                       IF c \notin DOMAIN LOOKALIKE_MAP /\ c \notin DOMAIN ACCENT_FALLBACK_MAP
                       THEN ReportAdvance(Append(unmappable, c))
                       ELSE ReportAdvance(unmappable)
                  [] OTHER -> ReportRaise(outcome)

\* return unmappable
ReportReturn ==
    /\ u_pc = "scan"
    /\ u_idx > Len(u_normalized)
    /\ u_result' = Returned(unmappable)
    /\ u_pc' = "done"
    /\ UNCHANGED <<u_codec, u_normalized, u_idx, unmappable, transcodeVars, tables, beyond>>

(***************************************************************************)
(* Two concurrent calls on the same text and codepage, interleaved step by *)
(* step: transcode_to_codepage with its default arguments and              *)
(* get_unmappable_chars.                                                   *)
(***************************************************************************)
InitCalls ==
    /\ text \in Texts
    /\ codepage \in CodepageChoices
    /\ replace_char = DefaultPlaceholder
    /\ apply_lookalikes = TRUE
    /\ apply_accents = TRUE
    /\ TranscodeEntry
    /\ TablesLoaded
    /\ u_pc = "entry"
    /\ u_codec = <<>>
    /\ u_normalized = <<>>
    /\ u_idx = 0
    /\ unmappable = <<>>
    /\ u_result = NoResult
    /\ BeyondIdle

NextCalls ==
    \/ ReturnEmpty
    \/ Normalize
    \/ ProbeCodec
    \/ TryNative
    \/ TryLookalike
    \/ TryAccent
    \/ EmitPlaceholder
    \/ Return
    \/ ReportEmpty
    \/ ReportSetup
    \/ CheckChar
    \/ ReportReturn

SpecCalls == InitCalls /\ [][NextCalls]_vars

(***************************************************************************)
(* apply_lookalike_map and apply_accent_fallback, one action per step of   *)
(* their bodies.                                                           *)
(***************************************************************************)
\* Everything the two calls have no access to.
unapplied ==
    <<transcodeVars, tables, reportVars, resolverVars, multiplierVars,
      deviceVars, wrapVars, choiceVars, connectVars, taskVars>>

\* for char in text: LOOKALIKE_MAP[char] if char in LOOKALIKE_MAP else char
ApplyLookalikeChar ==
    /\ l_pc = "loop"
    /\ l_idx <= Len(text)
    /\ LET c == text[l_idx]
       IN  l_chars' = Append(l_chars,
                             IF c \in DOMAIN LOOKALIKE_MAP
                             THEN LOOKALIKE_MAP[c]
                             ELSE <<c>>)
    /\ l_idx' = l_idx + 1
    /\ UNCHANGED <<l_pc, l_result, fallbackVars, unapplied>>

\* return "".join(result)
ApplyLookalikeReturn ==
    /\ l_pc = "loop"
    /\ l_idx > Len(text)
    /\ l_result' = Returned(Join(l_chars))
    /\ l_pc' = "done"
    /\ UNCHANGED <<l_idx, l_chars, fallbackVars, unapplied>>

\* codec = get_codec_name(codepage); result = []
ApplyAccentSetup ==
    /\ f_pc = "entry"
    /\ f_codec' = get_codec_name(codepage)
    /\ f_chars' = <<>>
    /\ f_idx' = 1
    /\ f_pc' = "loop"
    /\ UNCHANGED <<f_result, lookalikeVars, unapplied>>

\* for char in text: try char.encode(codec) and keep char; on
\* UnicodeEncodeError or LookupError, ACCENT_FALLBACK_MAP[char] if char is
\* a key, else char; any other exception leaves the call
ApplyAccentChar ==
    /\ f_pc = "loop"
    /\ f_idx <= Len(text)
    /\ LET c == text[f_idx]
           outcome == Encode(<<c>>, f_codec)
       IN  CASE outcome = "ok" ->
                  /\ f_chars' = Append(f_chars, <<c>>)
                  /\ f_idx' = f_idx + 1
                  /\ UNCHANGED <<f_pc, f_result>>
             [] outcome \in {"UnicodeEncodeError", "LookupError"} ->
                  /\ f_chars' = Append(f_chars,
                                       IF c \in DOMAIN ACCENT_FALLBACK_MAP
                                       THEN ACCENT_FALLBACK_MAP[c]
                                       ELSE <<c>>)
                  /\ f_idx' = f_idx + 1
                  /\ UNCHANGED <<f_pc, f_result>>
             [] OTHER ->
                  /\ f_result' = Raised(outcome)
                  /\ f_pc' = "done"
                  /\ UNCHANGED <<f_chars, f_idx>>
    /\ UNCHANGED <<f_codec, lookalikeVars, unapplied>>

\* return "".join(result)
ApplyAccentReturn ==
    /\ f_pc = "loop"
    /\ f_idx > Len(text)
    /\ f_result' = Returned(Join(f_chars))
    /\ f_pc' = "done"
    /\ UNCHANGED <<f_codec, f_idx, f_chars, lookalikeVars, unapplied>>

\* get_codec_name(codepage), called on its own
ResolveCodepage ==
    /\ name = codepage
    /\ name_codec = NoResult
    /\ name_codec' = Returned(get_codec_name(name))
    /\ UNCHANGED <<name, alias, alias_codec, transcodeVars, tables, reportVars,
                   multiplierVars, deviceVars, aside>>

(***************************************************************************)
(* The five operations of text_utils called concurrently on the same text  *)
(* and codepage, interleaved step by step: transcode_to_codepage with its  *)
(* default arguments, get_unmappable_chars, apply_lookalike_map,           *)
(* apply_accent_fallback and get_codec_name.                               *)
(***************************************************************************)
\* Code points the shared text is drawn from: a key of
\* ACCENT_FALLBACK_MAP, a key of LOOKALIKE_MAP and a character of neither
\* table.
SharedAlphabet == {227, 8216, 20013}

SharedTexts == UNION {[1..n -> SharedAlphabet] : n \in 0..MaxLen}

\* A codepage that lacks all three, one that holds the accented
\* letter, a name no codec answers to and a codec that raises on every
\* encode.
SharedCodepages ==
    { <<"C", "P", "4", "3", "7">>,
      <<"I", "S", "O", "_", "8", "8", "5", "9", "-", "1">>,
      <<"N", "O", "T", "_", "A", "_", "R", "E", "A", "L", "_",
        "C", "O", "D", "E", "P", "A", "G", "E">>,
      <<"u", "n", "d", "e", "f", "i", "n", "e", "d">> }

InitShared ==
    /\ text \in SharedTexts
    /\ codepage \in SharedCodepages
    /\ replace_char = DefaultPlaceholder
    /\ apply_lookalikes = TRUE
    /\ apply_accents = TRUE
    /\ TranscodeEntry
    /\ TablesLoaded
    /\ u_pc = "entry"
    /\ u_codec = <<>>
    /\ u_normalized = <<>>
    /\ u_idx = 0
    /\ unmappable = <<>>
    /\ u_result = NoResult
    /\ l_pc = "loop"
    /\ l_idx = 1
    /\ l_chars = <<>>
    /\ l_result = NoResult
    /\ f_pc = "entry"
    /\ f_codec = <<>>
    /\ f_idx = 0
    /\ f_chars = <<>>
    /\ f_result = NoResult
    /\ name = codepage
    /\ alias = <<>>
    /\ name_codec = NoResult
    /\ alias_codec = NoResult
    /\ MultiplierIdle
    /\ DeviceIdle
    /\ WrapIdle
    /\ ChoicesIdle
    /\ ConnectIdle
    /\ TasksIdle

NextShared ==
    \/ ReturnEmpty
    \/ Normalize
    \/ ProbeCodec
    \/ TryNative
    \/ TryLookalike
    \/ TryAccent
    \/ EmitPlaceholder
    \/ Return
    \/ ReportEmpty
    \/ ReportSetup
    \/ CheckChar
    \/ ReportReturn
    \/ ApplyLookalikeChar
    \/ ApplyLookalikeReturn
    \/ ApplyAccentSetup
    \/ ApplyAccentChar
    \/ ApplyAccentReturn
    \/ ResolveCodepage

SpecShared == InitShared /\ [][NextShared]_vars

(***************************************************************************)
(* get_codec_name called on two spellings of a codepage name.              *)
(***************************************************************************)
\* Names as users and printer profiles spell them.
NameChoices ==
    { <<"C", "P", "4", "3", "7">>,
      <<"c", "p", "1", "2", "5", "2">>,
      <<"C", "P", " ", "8", "6", "4">>,
      <<"C", "P", "-", "4", "3", "7">>,
      <<"C", "P">>,
      <<"C", "P", "4", "x">>,
      <<"I", "S", "O", "_", "8", "8", "5", "9", "-", "1", "5">>,
      <<"i", "s", "o", "-", "8", "8", "5", "9", "-", "1">>,
      <<"I", "S", "O", "8", "8", "5", "9", "_", "7">>,
      <<"I", "S", "O", "_", "8", "8", "5", "9", "_">>,
      <<"L", "A", "T", "I", "N", "1">>,
      <<"l", "a", "t", "i", "n", "-", "1">>,
      <<"U", "T", "F", "-", "8">>,
      <<"u", "t", "f", "8">>,
      <<"B", "i", "g", "5">>,
      <<>> }

\* s with position i set to ch.
SetChar(s, i, ch) == [j \in 1..Len(s) |-> IF j = i THEN ch ELSE s[j]]

\* The spellings one edit away from s: the case of one letter changed, one
\* "-" written "_" or one "_" written "-", one space put between two
\* characters, or one space taken out.
OneEdit(s) ==
    {SetChar(s, i, UpperChar(s[i])) : i \in 1..Len(s)}
    \cup {SetChar(s, i, LowerChar(s[i])) : i \in 1..Len(s)}
    \cup {SetChar(s, i, "_") : i \in {j \in 1..Len(s) : s[j] = "-"}}
    \cup {SetChar(s, i, "-") : i \in {j \in 1..Len(s) : s[j] = "_"}}
    \cup {SubSeq(s, 1, i) \o <<" ">> \o SubSeq(s, i + 1, Len(s)) : i \in 1..(Len(s) - 1)}
    \cup {SubSeq(s, 1, i - 1) \o SubSeq(s, i + 1, Len(s)) :
            i \in {j \in 1..Len(s) : s[j] = " "}}

\* The spellings at most k edits away from s.
RECURSIVE Spellings(_, _)
Spellings(s, k) ==
    IF k = 0 THEN {s}
    ELSE LET near == Spellings(s, k - 1)
         IN  near \cup UNION {OneEdit(t) : t \in near}

InitNames ==
    /\ name \in NameChoices
    /\ alias \in Spellings(name, MaxEdits)
    /\ name_codec = NoResult
    /\ alias_codec = NoResult
    /\ text = <<>>
    /\ codepage = <<>>
    /\ replace_char = DefaultPlaceholder
    /\ apply_lookalikes = TRUE
    /\ apply_accents = TRUE
    /\ TranscodeEntry
    /\ TablesLoaded
    /\ ReportIdle
    /\ MultiplierIdle
    /\ DeviceIdle
    /\ AsideIdle

\* name_codec = get_codec_name(name)
ResolveName ==
    /\ name_codec = NoResult
    /\ name_codec' = Returned(get_codec_name(name))
    /\ UNCHANGED <<name, alias, alias_codec, transcodeVars, tables, reportVars,
                   multiplierVars, deviceVars, aside>>

\* alias_codec = get_codec_name(alias)
ResolveAlias ==
    /\ alias_codec = NoResult
    /\ alias_codec' = Returned(get_codec_name(alias))
    /\ UNCHANGED <<name, alias, name_codec, transcodeVars, tables, reportVars,
                   multiplierVars, deviceVars, aside>>

NextNames ==
    \/ ResolveName
    \/ ResolveAlias

SpecNames == InitNames /\ [][NextNames]_vars

(***************************************************************************)
(* printer/mapping_utils.py: map_multiplier.                               *)
(***************************************************************************)
\* The value of a decimal digit.
DigitValue ==
    ("0" :> 0) @@ ("1" :> 1) @@ ("2" :> 2) @@ ("3" :> 3) @@ ("4" :> 4)
    @@ ("5" :> 5) @@ ("6" :> 6) @@ ("7" :> 7) @@ ("8" :> 8) @@ ("9" :> 9)

\* str.strip(): s without the whitespace at its two ends.
RECURSIVE Strip(_)
Strip(s) ==
    IF s = <<>> THEN s
    ELSE IF Head(s) = " " THEN Strip(Tail(s))
    ELSE IF s[Len(s)] = " " THEN Strip(SubSeq(s, 1, Len(s) - 1))
    ELSE s

\* The number a run of decimal digits and "_" separators denotes.
RECURSIVE DecimalValue(_)
DecimalValue(s) ==
    IF s = <<>> THEN 0
    ELSE LET last == s[Len(s)]
             front == SubSeq(s, 1, Len(s) - 1)
         IN  IF last = "_" THEN DecimalValue(front)
             ELSE 10 * DecimalValue(front) + DigitValue[last]

\* int(s) for a string: optional whitespace around an optional sign and
\* decimal digits, single "_" allowed between digits; ValueError otherwise.
ParseInt(s) ==
    LET t == Strip(s)
        signed == t # <<>> /\ Head(t) \in {"+", "-"}
        body == IF signed THEN Tail(t) ELSE t
        wellFormed ==
            /\ body # <<>>
            /\ \A i \in 1..Len(body) : body[i] \in Digits \cup {"_"}
            /\ body[1] # "_"
            /\ body[Len(body)] # "_"
            /\ \A i \in 1..(Len(body) - 1) : ~(body[i] = "_" /\ body[i + 1] = "_")
    IN  IF wellFormed
        THEN [ok |-> TRUE,
              value |-> IF signed /\ Head(t) = "-"
                        THEN 0 - DecimalValue(body)
                        ELSE DecimalValue(body)]
        ELSE [ok |-> FALSE, value |-> 0]

Min(a, b) == IF a <= b THEN a ELSE b

Max(a, b) == IF a >= b THEN a ELSE b

\* mapping = {"normal": 1, "double": 2, "triple": 3}
MultiplierNames ==
    (<<"n", "o", "r", "m", "a", "l">> :> 1)
    @@ (<<"d", "o", "u", "b", "l", "e">> :> 2)
    @@ (<<"t", "r", "i", "p", "l", "e">> :> 3)


\* Variant of map_multiplier: numbers are passed through as they are, not
\* clamped to 1..8.
map_multiplier_NoClamp(v) ==
    IF v.type = "NoneType" THEN 1
    ELSE IF v.type = "int" THEN v.int
    ELSE IF Lower(v.str) \in DOMAIN MultiplierNames
    THEN MultiplierNames[Lower(v.str)]
    ELSE IF ParseInt(v.str).ok
    THEN ParseInt(v.str).value
    ELSE 1

\* def map_multiplier(val): None -> 1; int -> clamped; named size; numeric
\* string -> clamped; anything else -> 1
map_multiplier(v) ==
    IF v.type = "NoneType" THEN 1
    ELSE IF v.type = "int" THEN Max(1, Min(8, v.int))
    ELSE IF Lower(v.str) \in DOMAIN MultiplierNames
    THEN MultiplierNames[Lower(v.str)]
    ELSE IF ParseInt(v.str).ok
    THEN Max(1, Min(8, ParseInt(v.str).value))
    ELSE 1

\* Characters of the strings handed to map_multiplier.
ValChars == {"0", "4", "9", "-", "+", " ", "_", "x"}

\* The values handed to map_multiplier.
ValChoices ==
    {NoneValue}
    \cup {IntValue(n) : n \in (0 - MaxValInt)..MaxValInt}
    \cup {StrValue(t) : t \in UNION {[1..n -> ValChars] : n \in 0..MaxValLen}}
    \cup {StrValue(t) : t \in {<<"n", "o", "r", "m", "a", "l">>,
                               <<"d", "o", "u", "b", "l", "e">>,
                               <<"t", "r", "i", "p", "l", "e">>,
                               <<"D", "O", "U", "B", "L", "E">>,
                               <<"T", "r", "i", "p", "l", "e">>,
                               <<"b", "i", "g">>,
                               <<"4", ".", "0">>,
                               <<"1", "0">>}}

InitMultiplier ==
    /\ val \in ValChoices
    /\ m_result = NoResult
    /\ ResolverIdle
    /\ text = <<>>
    /\ codepage = <<>>
    /\ replace_char = DefaultPlaceholder
    /\ apply_lookalikes = TRUE
    /\ apply_accents = TRUE
    /\ TranscodeEntry
    /\ TablesLoaded
    /\ ReportIdle
    /\ DeviceIdle
    /\ AsideIdle

\* m_result = map_multiplier(val)
MapMultiplier ==
    /\ m_result = NoResult
    /\ m_result' = Returned(map_multiplier(val))
    /\ UNCHANGED <<val, transcodeVars, tables, reportVars, resolverVars,
                   deviceVars, aside>>

NextMultiplier == MapMultiplier

SpecMultiplier == InitMultiplier /\ [][NextMultiplier]_vars

(***************************************************************************)
(* The printer adapter: printer/base_adapter.py, printer/usb_adapter.py,   *)
(* printer/print_operations.py and printer/control_operations.py.          *)
(***************************************************************************)

\* Values of status_interval handed to start.
StatusIntervals == {0, 30}

\* str.splitlines(), on text whose only line boundary is "\n".
RECURSIVE SplitLines(_)
SplitLines(t) ==
    IF t = <<>>
    THEN <<>>
    ELSE IF \E i \in 1..Len(t) : t[i] = 10
         THEN LET i == CHOOSE k \in 1..Len(t) :
                           /\ t[k] = 10
                           /\ \A j \in 1..(k - 1) : t[j] # 10
              IN <<SubSeq(t, 1, i - 1)>> \o SplitLines(SubSeq(t, i + 1, Len(t)))
         ELSE <<t>>

\* textwrap.wrap(line, width=cols, replace_whitespace=False,
\* drop_whitespace=False) on a line without whitespace or hyphens: the line
\* is one word, broken into pieces of cols characters.
RECURSIVE WrapLine(_, _)
WrapLine(line, cols) ==
    IF Len(line) <= cols
    THEN <<line>>
    ELSE <<SubSeq(line, 1, cols)>>
             \o WrapLine(SubSeq(line, cols + 1, Len(line)), cols)

\* "\n".join(lines)
RECURSIVE JoinLines(_)
JoinLines(lines) ==
    IF lines = <<>>
    THEN <<>>
    ELSE IF Len(lines) = 1
         THEN lines[1]
         ELSE lines[1] \o <<10>> \o JoinLines(Tail(lines))

\* The lines _wrap_text collects: "" for an empty line, the wrapped pieces
\* of any other.
RECURSIVE WrappedLines(_, _)
WrappedLines(lines, cols) ==
    IF lines = <<>>
    THEN <<>>
    ELSE (IF lines[1] = <<>> THEN << <<>> >> ELSE WrapLine(lines[1], cols))
             \o WrappedLines(Tail(lines), cols)

\* EscposPrinterAdapterBase._wrap_text(text)
_wrap_text(t) ==
    LET cols == Max(0, line_width)
    IN IF cols <= 0
       THEN t
       ELSE JoinLines(WrappedLines(SplitLines(t), cols))

\* validate_text_input(text) of security.py, as print_text relies on it:
\* the call returns the text to print or raises.  The ways it can end on t.
validate_text_input(t) == {Returned(t), Raised("Exception")}

\* validate_numeric_input(value, min_val, max_val, name) of security.py, as
\* its callers rely on it: the call returns the number or raises.  The ways
\* it can end on value.
validate_numeric_input(value) ==
    {[kind |-> "return", value |-> value], [kind |-> "raise", value |-> 0]}

\* The codecs of the registry that encode with errors="strict" only.
StrictOnly == {<<"i", "d", "n", "a">>}

\* text.encode(e, errors="replace"): the characters the codec lacks become
\* "?"; the call raises when the codec is unknown, refuses to encode or
\* does not know the error handler.  The codec is looked up by the name in
\* lower case.
EncodeReplace(t, e) ==
    IF Lower(e) \notin DOMAIN CodecRegistry \/ Lower(e) \in StrictOnly
    THEN [ok |-> FALSE, text |-> <<>>]
    ELSE LET entry == CodecRegistry[Lower(e)]
         IN IF \/ entry.probe # "ok"
               \/ \E i \in 1..Len(t) : t[i] \in entry.failing
            THEN [ok |-> FALSE, text |-> <<>>]
            ELSE [ok |-> TRUE,
                  text |-> [i \in 1..Len(t) |->
                               IF t[i] \in entry.repertoire
                               THEN t[i]
                               ELSE 63]]

\* Calls on the printer object.
TextCall(t) == [routine |-> "text", text |-> t, encoding |-> <<>>]

RawCall(t, e) == [routine |-> "_raw", text |-> t, encoding |-> e]

SetCodepageCall(e) == [routine |-> "_set_codepage", text |-> <<>>, encoding |-> e]

CharcodeCall(e) == [routine |-> "charcode", text |-> <<>>, encoding |-> e]

\* The adapter uses its stored connection instead of opening one.
UsesStored == _keepalive /\ _printer # "None"

\* UsbPrinterAdapter._CONNECT_RETRIES
_CONNECT_RETRIES == 2

\* errno values of EIO, EBUSY and ENODEV.
RetryableErrnos == {5, 16, 19}

\* The exceptions an open attempt can raise: a usb.core.USBError or another
\* exception, with an errno (0 for none: EIO, EACCES, EBUSY, ENODEV) and a
\* message that holds one of "input/output error", "resource busy",
\* "no device" ("match") or none of them ("other").
OpenFailures ==
    [usb_error : BOOLEAN, errno : {0, 5, 13, 16, 19}, message : {"match", "other"}]

\* _is_retryable(exc)
_is_retryable(exc) ==
    IF exc.usb_error
    THEN exc.errno \in RetryableErrnos
    ELSE exc.message = "match"

\* for cb in list(self._status_listeners): cb(ok)
Calls(ok) ==
    [i \in 1..Len(_status_listeners) |->
        [listener |-> _status_listeners[i], value |-> ok]]

\* UsbPrinterAdapter._connect from open attempt n on, e being the errno the
\* attempts before it stored in _last_error_errno (-1: none was stored):
\* the ways the call can end, with a connection or with the exception of
\* the last attempt, and the errno stored by then.
RECURSIVE UsbConnect(_, _)
UsbConnect(n, e) ==
    {[connected |-> TRUE, errno |-> e]}
    \cup UNION {IF n >= _CONNECT_RETRIES \/ ~_is_retryable(exc)
                THEN {[connected |-> FALSE, errno |-> exc.errno]}
                ELSE UsbConnect(n + 1, exc.errno) : exc \in OpenFailures}

\* The ways a call of UsbPrinterAdapter._connect can end.
UsbConnectEnds == UsbConnect(0, -1)

\* The ways a call of NetworkPrinterAdapter._connect can end: it returns
\* the connection or raises, and stores no errno.
NetworkConnectEnds == {[connected |-> c, errno |-> -1] : c \in BOOLEAN}

\* One open attempt of self._connect(), attempt n of the call, and what the
\* call does after it: it returns the connection, raises, or sleeps before
\* the next attempt ("retry"), with the errno the attempt stores in
\* _last_error_errno (-1: none is stored).  UsbPrinterAdapter._connect
\* tries again after a retryable failure while attempts remain;
\* NetworkPrinterAdapter._connect makes one attempt and stores no errno.
OpenAttempt(n) ==
    IF connection_type = "usb"
    THEN {[end |-> "connected", errno |-> -1]}
         \cup {[end |-> IF n >= _CONNECT_RETRIES \/ ~_is_retryable(exc)
                        THEN "raised"
                        ELSE "retry",
                errno |-> exc.errno] : exc \in OpenFailures}
    ELSE {[end |-> "connected", errno |-> -1],
          [end |-> "raised", errno |-> -1]}

\* The ways a call of self._connect() can end when it runs in one step: on
\* the event loop, where no step of the adapter's coroutines comes between
\* its attempts.
ConnectEnds ==
    IF connection_type = "usb" THEN UsbConnectEnds ELSE NetworkConnectEnds

\* _last_error_errno after an open attempt, or a call of self._connect(),
\* that ended with end.
Errno(end) == IF end.errno = -1 THEN _last_error_errno ELSE end.errno

\* The end of _status_check: a check of the USB adapter that found the
\* device clears _last_error_errno; _status is set and the listeners are
\* called when the probe's outcome differs from it.
CheckedStatus(event, ok) ==
    /\ _last_error_errno' = IF connection_type = "usb" /\ ok = "True"
                            THEN 0
                            ELSE _last_error_errno
    /\ _status' = ok
    /\ heard' = [event |-> event, before |-> _status, after |-> ok,
                 listeners |-> _status_listeners,
                 calls |-> IF _status # ok THEN Calls(ok) ELSE <<>>]

\* _mark_success(): _status is set to True, _last_error_errno cleared and
\* the listeners are called.
MarkSuccess ==
    /\ _status' = "True"
    /\ _last_error_errno' = 0
    /\ heard' = [event |-> "success", before |-> _status, after |-> "True",
                 listeners |-> _status_listeners,
                 calls |-> Calls("True")]

\* What the operations of the adapter leave alone, but for the attempt
\* counter of a _connect they run.
Apart ==
    UNCHANGED <<configVars, requestVars, transcodeVars, tables, reportVars,
                resolverVars, multiplierVars, wrapVars, choiceVars, applyVars, opens,
                last_exc, k_result>>

\* What the operations of the adapter leave alone.
Elsewhere ==
    /\ Apart
    /\ UNCHANGED attempt

\* One more call of start is suspended at position at.
Suspended(pcs, at) == [pcs EXCEPT ![at] = @ + 1]

\* A call of start suspended at position at resumes.
Resumed(pcs, at) == [pcs EXCEPT ![at] = @ - 1]

\* start, after the connection, the other suspended calls of start being
\* at pcs: with a positive interval the periodic check is scheduled and the
\* first check begun; otherwise start returns.
Schedule(interval, pcs) ==
    IF interval > 0
    THEN /\ _cancel_status' = TRUE
         /\ timers' = timers + 1
         /\ s_pc' = Suspended(pcs, "probe")
         /\ UNCHANGED lifecycle
    ELSE /\ s_pc' = pcs
         /\ lifecycle' = "started"
         /\ UNCHANGED <<_cancel_status, timers>>

\* EscposPrinterAdapterBase.start(hass, keepalive=k, status_interval=si), up
\* to its first await: the job that connects when a connection is to be
\* kept and none is stored, the probe of the first status check otherwise.
\* Nothing keeps start from being called while an earlier call of it is
\* suspended.
BaseStart(k, si) ==
    /\ _keepalive' = k
    /\ _status_interval' = Max(0, si)
    /\ IF k /\ _printer = "None"
       THEN /\ s_pc' = Suspended(s_pc, "connect")
            /\ UNCHANGED <<_cancel_status, timers, lifecycle>>
       ELSE Schedule(Max(0, si), s_pc)
    /\ UNCHANGED <<_printer, connections, _status, heard, _last_error_errno>>

\* start: the job _mk runs _connect.  When _connect raises, so does start.
StartConnect ==
    /\ s_pc["connect"] > 0
    /\ \E end \in ConnectEnds :
          /\ _last_error_errno' = Errno(end)
          /\ IF end.connected
             THEN /\ connections' = connections + 1
                  /\ s_pc' = Suspended(Resumed(s_pc, "connect"), "connected")
             ELSE /\ s_pc' = Resumed(s_pc, "connect")
                  /\ UNCHANGED connections
    /\ UNCHANGED <<_keepalive, _printer, _status_interval, _cancel_status,
                   _status, _lock, keepalive, ops, timers, _status_listeners,
                   heard, lifecycle, printVars, controlVars, taskVars>>
    /\ Elsewhere

\* The caller's reference to the stored connection after start has stored
\* another connection in its place: the connection it holds is open when
\* it was, and no field of the adapter refers to it.
Replaced(held) ==
    IF held = "stored"
    THEN IF _printer = "connection" THEN "replaced" ELSE "closed"
    ELSE held

\* start resumes with the connection: it is stored, whatever is stored by
\* then, and start goes on to the status checks, by the interval as it is
\* by then.
StartConnected ==
    /\ s_pc["connected"] > 0
    /\ _printer' = "connection"
    /\ p_printer' = Replaced(p_printer)
    /\ tasks' = [t \in Tasks |-> [tasks[t] EXCEPT !.printer = Replaced(@)]]
    /\ Schedule(_status_interval, Resumed(s_pc, "connected"))
    /\ UNCHANGED <<_keepalive, _status_interval, _status, _lock, keepalive,
                   connections, ops, _status_listeners, heard,
                   _last_error_errno, p_pc, p_text, p_encoding,
                   text_to_print, p_result, wire, controlVars>>
    /\ Elsewhere

\* start: the first status check ends, and start returns.
StartProbed ==
    /\ s_pc["probe"] > 0
    /\ \E ok \in {"True", "False"} : CheckedStatus("start", ok)
    /\ s_pc' = Resumed(s_pc, "probe")
    /\ lifecycle' = "started"
    /\ UNCHANGED <<_keepalive, _printer, _status_interval, _cancel_status,
                   _lock, keepalive, connections, ops, timers,
                   _status_listeners, printVars, controlVars, taskVars>>
    /\ Elsewhere

\* A start that hands the caller's keepalive on to the base class.
UsbStart_KeepsAlive(k, si) ==
    /\ ops < MaxOps
    /\ ops' = ops + 1
    /\ keepalive' = k
    /\ BaseStart(k, si)
    /\ UNCHANGED <<_lock, _status_listeners, printVars, controlVars,
                   taskVars>>
    /\ Elsewhere

\* UsbPrinterAdapter.start(hass, keepalive=k, status_interval=si)
UsbStart(k, si) ==
    /\ ops < MaxOps
    /\ ops' = ops + 1
    /\ keepalive' = k
    /\ BaseStart(FALSE, si)
    /\ UNCHANGED <<_lock, _status_listeners, printVars, controlVars,
                   taskVars>>
    /\ Elsewhere

\* The caller's reference to the stored connection after stop has closed it.
Dropped(held) == IF held = "stored" THEN "closed" ELSE held

\* EscposPrinterAdapterBase.stop().  It takes no lock; an operation that
\* holds the stored connection is left with a closed one.
Stop ==
    /\ ops < MaxOps
    /\ ops' = ops + 1
    /\ timers' = IF _cancel_status THEN timers - 1 ELSE timers
    /\ _cancel_status' = FALSE
    /\ _printer' = "None"
    /\ connections' = IF _printer = "connection"
                      THEN connections - 1
                      ELSE connections
    /\ p_printer' = IF _printer # "None" THEN Dropped(p_printer) ELSE p_printer
    /\ tasks' = IF _printer # "None"
                THEN [t \in Tasks |->
                         [tasks[t] EXCEPT !.printer = Dropped(@)]]
                ELSE tasks
    /\ lifecycle' = "stopped"
    /\ UNCHANGED <<_keepalive, _status_interval, _status, _lock, keepalive,
                   _status_listeners, heard, s_pc, _last_error_errno, p_pc,
                   p_text, p_encoding, text_to_print, p_result, wire,
                   controlVars>>
    /\ Elsewhere

\* _status_check(hass), on the scheduled tick or on
\* async_request_status_check, when its probe has run.  The device is
\* looked for, not opened.
StatusCheck ==
    /\ ops < MaxOps
    /\ ops' = ops + 1
    /\ \E ok \in {"True", "False"} : CheckedStatus("check", ok)
    /\ UNCHANGED <<_keepalive, _printer, _status_interval, _cancel_status,
                   _lock, keepalive, connections, timers, _status_listeners,
                   lifecycle, s_pc, printVars, controlVars, taskVars>>
    /\ Elsewhere

\* A caller invokes print_text(text=t, encoding=e), feed and cut left at
\* their defaults 0 and "none".
CallPrintText(t, e) ==
    /\ ops < MaxOps
    /\ ops' = ops + 1
    /\ p_pc \in {"idle", "done"}
    /\ p_pc' = "called"
    /\ p_text' = t
    /\ p_encoding' = e
    /\ text_to_print' = <<>>
    /\ p_result' = NoResult
    /\ UNCHANGED <<_keepalive, _printer, _status_interval, _cancel_status,
                   _status, _lock, keepalive, connections, wire, p_printer,
                   _last_error_errno, watchVars, controlVars, taskVars>>
    /\ Elsewhere

\* print_text up to its first await: the text is validated and wrapped, the
\* lock taken and the job _do_print handed to the executor.  When the
\* validation raises, print_text raises before it asks for the lock.
PrintText ==
    /\ p_pc = "called"
    /\ \E validated \in validate_text_input(p_text) :
          IF validated.kind = "raise"
          THEN /\ p_result' = validated
               /\ p_pc' = "done"
               /\ UNCHANGED <<text_to_print, _lock>>
          ELSE /\ _lock = "free"
               /\ text_to_print' = _wrap_text(validated.value)
               /\ _lock' = "print_text"
               /\ p_pc' = "do_print"
               /\ UNCHANGED p_result
    /\ UNCHANGED <<_keepalive, _printer, _status_interval, _cancel_status,
                   _status, keepalive, connections, ops, p_text, p_encoding,
                   wire, p_printer, _last_error_errno, watchVars,
                   controlVars, taskVars>>
    /\ Elsewhere

\* _do_print in its thread, line 79: the condition of the conditional
\* expression, by the fields as they are when the job reads them, and,
\* without a stored connection to use, one open attempt of _connect per
\* step.  With a stored connection the job goes on to read it.  A _connect
\* that raises ends the job before its try block; one that sleeps is at
\* its next attempt in the next step.
DoPrintConnect ==
    /\ p_pc = "do_print"
    /\ IF attempt = 0 /\ UsesStored
       THEN /\ p_pc' = "read"
            /\ UNCHANGED <<p_printer, connections, p_result,
                           _last_error_errno, attempt>>
       ELSE \E try \in OpenAttempt(attempt) :
               /\ _last_error_errno' = Errno(try)
               /\ CASE try.end = "connected" ->
                         /\ p_printer' = "own"
                         /\ connections' = connections + 1
                         /\ p_pc' = "send"
                         /\ attempt' = 0
                         /\ UNCHANGED p_result
                    [] try.end = "raised" ->
                         /\ p_result' = Raised("Exception")
                         /\ p_pc' = "post"
                         /\ attempt' = 0
                         /\ UNCHANGED <<p_printer, connections>>
                    [] try.end = "retry" ->
                         /\ attempt' = attempt + 1
                         /\ UNCHANGED <<p_pc, p_printer, connections,
                                        p_result>>
    /\ UNCHANGED <<_keepalive, _printer, _status_interval, _cancel_status,
                   _status, _lock, keepalive, ops, p_text, p_encoding,
                   text_to_print, wire, watchVars, controlVars, taskVars>>
    /\ Apart

\* The value of self._printer as the job reads it after the condition:
\* the stored connection, or None once stop has cleared the field.
ReadStored == IF _printer = "None" THEN "no_printer" ELSE "stored"

\* _do_print in its thread, line 79: the second read of self._printer.
DoPrintRead ==
    /\ p_pc = "read"
    /\ p_printer' = ReadStored
    /\ p_pc' = "send"
    /\ UNCHANGED <<_keepalive, _printer, _status_interval, _cancel_status,
                   _status, _lock, keepalive, connections, ops, p_text,
                   p_encoding, text_to_print, p_result, wire,
                   _last_error_errno, watchVars, controlVars, taskVars>>
    /\ Elsewhere

\* The codepage call _do_print makes first on a printer that has charcode,
\* its exceptions swallowed.
Preamble(has_charcode) ==
    IF config_codepage # <<>> /\ has_charcode
    THEN <<CharcodeCall(config_codepage)>>
    ELSE <<>>

\* The calls _do_print makes after printer.set inside "if encoding:", up
\* to the except clause: _set_codepage on a printer that has it, then the
\* bytes to _raw on a printer that has it and the text to printer.text on
\* one that has not.
Encoded(has_set_codepage, has_raw) ==
    (IF has_set_codepage THEN <<SetCodepageCall(p_encoding)>> ELSE <<>>)
    \o (IF EncodeReplace(text_to_print, p_encoding).ok
        THEN IF has_raw
             THEN <<RawCall(EncodeReplace(text_to_print, p_encoding).text,
                            p_encoding)>>
             ELSE <<TextCall(text_to_print)>>
        ELSE <<>>)

\* _do_print reaches the printer.text of its except clause or of its else
\* branch: there is no encoding, or the encoding, _raw or the printer.text
\* in the try block raised.
EndsInText(try_ok) ==
    \/ p_encoding = <<>>
    \/ ~EncodeReplace(text_to_print, p_encoding).ok
    \/ ~try_ok

\* The calls _do_print makes on the connection once printer.set has
\* succeeded or was not there to call.
Sent(has_charcode, has_set_codepage, has_raw, try_ok) ==
    Preamble(has_charcode)
    \o (IF p_encoding # <<>>
        THEN Encoded(has_set_codepage, has_raw)
        ELSE <<>>)
    \o (IF EndsInText(try_ok) THEN <<TextCall(text_to_print)>> ELSE <<>>)

\* _do_print in its thread: the body of its try block.  printer.set or the
\* last printer.text raising ends it with the exception.  When the job
\* read None for the printer it has no routine to call, and printer.text
\* raises AttributeError.
DoPrintSend ==
    /\ p_pc = "send"
    /\ IF p_printer = "no_printer"
       THEN /\ p_result' = Raised("AttributeError")
            /\ UNCHANGED wire
       ELSE \E has_charcode, has_set, set_ok, has_set_codepage, has_raw,
               try_ok, text_ok \in BOOLEAN :
               IF has_set /\ ~set_ok
               THEN /\ wire' = wire \o Preamble(has_charcode)
                    /\ p_result' = Raised("Exception")
               ELSE /\ wire' = wire \o Sent(has_charcode, has_set_codepage,
                                            has_raw, try_ok)
                    /\ p_result' = IF EndsInText(try_ok) /\ ~text_ok
                                   THEN Raised("Exception")
                                   ELSE p_result
    /\ p_pc' = "finally"
    /\ UNCHANGED <<_keepalive, _printer, _status_interval, _cancel_status,
                   _status, _lock, keepalive, connections, ops, p_text,
                   p_encoding, text_to_print, p_printer, _last_error_errno,
                   watchVars, controlVars, taskVars>>
    /\ Elsewhere

\* The connections open once a print operation has closed the connection
\* it holds: closing a connection that is closed already changes nothing,
\* and None has no close to call.
Closing(held) ==
    IF \/ held \in {"own", "replaced"}
       \/ held = "stored" /\ _printer = "connection"
    THEN connections - 1
    ELSE connections

\* The stored connection once a print operation has closed the connection
\* it holds.
StoredAfterClosing(held) ==
    IF held = "stored" THEN "closed" ELSE _printer

\* _do_print in its thread: finally: if not self._keepalive:
\* printer.close(), by the field as it is when the job reads it.
DoPrintFinally ==
    /\ p_pc = "finally"
    /\ IF ~_keepalive
       THEN /\ connections' = Closing(p_printer)
            /\ _printer' = StoredAfterClosing(p_printer)
       ELSE UNCHANGED <<connections, _printer>>
    /\ p_printer' = "None"
    /\ p_pc' = "post"
    /\ UNCHANGED <<_keepalive, _status_interval, _cancel_status, _status,
                   _lock, keepalive, ops, p_text, p_encoding, text_to_print,
                   p_result, wire, _last_error_errno, watchVars, controlVars,
                   taskVars>>
    /\ Elsewhere

\* A connection opened for the post-processing is closed at its end unless
\* the adapter keeps connections alive.
AfterStep(connected) ==
    IF ~UsesStored /\ connected /\ _keepalive
    THEN connections + 1
    ELSE connections

\* print_text resumes after the job.  An exception of the job leaves the
\* lock with it.  Otherwise printer_for_post is taken, by a _connect on the
\* event loop when no stored connection is used, and _apply_cut_and_feed
\* validates the feed of 0 lines: when the validation raises, so does
\* print_text; otherwise feed 0 and cut "none" send nothing and
\* _mark_success is called once the lock is released.  Either way the
\* connection is closed unless connections are kept alive.
PostPrint ==
    /\ p_pc = "post"
    /\ IF p_result.kind = "raise"
       THEN UNCHANGED <<p_result, _status, heard, connections,
                        _last_error_errno>>
       ELSE \E end \in (IF UsesStored
                        THEN {[connected |-> TRUE, errno |-> -1]}
                        ELSE ConnectEnds),
               lines \in validate_numeric_input(0) :
               IF ~end.connected
               THEN /\ p_result' = Raised("Exception")
                    /\ _last_error_errno' = Errno(end)
                    /\ UNCHANGED <<_status, heard, connections>>
               ELSE /\ connections' = AfterStep(TRUE)
                    /\ IF lines.kind = "raise"
                       THEN /\ p_result' = Raised("Exception")
                            /\ _last_error_errno' = Errno(end)
                            /\ UNCHANGED <<_status, heard>>
                       ELSE /\ p_result' = Returned(<<>>)
                            /\ MarkSuccess
    /\ p_pc' = "done"
    /\ _lock' = "free"
    /\ UNCHANGED <<_keepalive, _printer, _status_interval, _cancel_status,
                   keepalive, ops, p_text, p_encoding, text_to_print, wire,
                   p_printer, timers, _status_listeners, lifecycle, s_pc,
                   controlVars, taskVars>>
    /\ Elsewhere

\* feed, cut or beep up to its first await: the lock is taken and
\* _acquire_printer called, which returns the stored connection at once or
\* hands _connect to the executor.
AcquireControl ==
    /\ ops < MaxOps
    /\ ops' = ops + 1
    /\ c_pc = "idle"
    /\ _lock = "free"
    /\ _lock' = "control"
    /\ c_pc' = IF UsesStored THEN "command" ELSE "connect"
    /\ owned' = FALSE
    /\ UNCHANGED <<_keepalive, _printer, _status_interval, _cancel_status,
                   _status, keepalive, connections, _last_error_errno,
                   watchVars, printVars, taskVars>>
    /\ Elsewhere

\* _acquire_printer: the job runs _connect, in its thread, one open
\* attempt per step.  The job ends when _connect returns the connection or
\* raises; the operation holds the lock until it is resumed.
ControlConnect ==
    /\ c_pc = "connect"
    /\ \E try \in OpenAttempt(attempt) :
          /\ _last_error_errno' = Errno(try)
          /\ CASE try.end = "connected" ->
                    /\ connections' = connections + 1
                    /\ c_pc' = "connected"
                    /\ attempt' = 0
               [] try.end = "raised" ->
                    /\ c_pc' = "failed"
                    /\ attempt' = 0
                    /\ UNCHANGED connections
               [] try.end = "retry" ->
                    /\ attempt' = attempt + 1
                    /\ UNCHANGED <<c_pc, connections>>
    /\ UNCHANGED <<_keepalive, _printer, _status_interval, _cancel_status,
                   _status, _lock, keepalive, ops, owned, watchVars,
                   printVars, taskVars>>
    /\ Apart

\* feed, cut or beep resumes after the job of _acquire_printer: with the
\* connection, which it owns, it hands the command to the executor; with
\* the exception of _connect it leaves the lock and raises.
AfterConnect ==
    /\ c_pc \in {"connected", "failed"}
    /\ IF c_pc = "connected"
       THEN /\ owned' = TRUE
            /\ c_pc' = "command"
            /\ UNCHANGED _lock
       ELSE /\ c_pc' = "idle"
            /\ _lock' = "free"
            /\ UNCHANGED owned
    /\ UNCHANGED <<_keepalive, _printer, _status_interval, _cancel_status,
                   _status, keepalive, connections, ops, _last_error_errno,
                   watchVars, printVars, taskVars>>
    /\ Elsewhere

\* feed, cut or beep: the job sends the command, in its thread.
ControlCommand ==
    /\ c_pc = "command"
    /\ c_pc' = "sent"
    /\ UNCHANGED <<_keepalive, _printer, _status_interval, _cancel_status,
                   _status, _lock, keepalive, connections, ops, owned,
                   _last_error_errno, watchVars, printVars, taskVars>>
    /\ Elsewhere

\* feed, cut or beep resumes after the job: _release_printer hands the
\* close of an owned connection to the executor; with the stored connection
\* it returns at once and the lock is released.
AfterCommand ==
    /\ c_pc = "sent"
    /\ IF owned
       THEN /\ c_pc' = "release"
            /\ UNCHANGED _lock
       ELSE /\ c_pc' = "idle"
            /\ _lock' = "free"
    /\ UNCHANGED <<_keepalive, _printer, _status_interval, _cancel_status,
                   _status, keepalive, connections, ops, owned,
                   _last_error_errno, watchVars, printVars, taskVars>>
    /\ Elsewhere

\* _release_printer: the job closes the owned connection.
ReleaseControl ==
    /\ c_pc = "release"
    /\ connections' = connections - 1
    /\ owned' = FALSE
    /\ c_pc' = "leave"
    /\ UNCHANGED <<_keepalive, _printer, _status_interval, _cancel_status,
                   _status, _lock, keepalive, ops, _last_error_errno,
                   watchVars, printVars, taskVars>>
    /\ Elsewhere

\* feed, cut or beep resumes after the close and releases the lock.
LeaveControl ==
    /\ c_pc = "leave"
    /\ c_pc' = "idle"
    /\ _lock' = "free"
    /\ UNCHANGED <<_keepalive, _printer, _status_interval, _cancel_status,
                   _status, keepalive, connections, ops, owned,
                   _last_error_errno, watchVars, printVars, taskVars>>
    /\ Elsewhere

\* The transcode_to_codepage frame before any call of it.
TranscodeNotCalled ==
    /\ text = <<>>
    /\ codepage = <<>>
    /\ replace_char = DefaultPlaceholder
    /\ apply_lookalikes = TRUE
    /\ apply_accents = TRUE
    /\ pc = "idle"
    /\ normalized = <<>>
    /\ codec = <<>>
    /\ idx = 0
    /\ result_chars = <<>>
    /\ tiers = <<>>
    /\ tried = <<>>
    /\ lookups = <<>>
    /\ result = NoResult
    /\ pass = 1
    /\ prev = NoResult

\* A UsbPrinterAdapter after construction, with the default configuration.
InitUsb ==
    /\ AdapterConstructed
    /\ UsbConfigDefault
    /\ WatchIdle
    /\ PrintIdle
    /\ ControlIdle
    /\ RequestIdle
    /\ TranscodeNotCalled
    /\ TablesLoaded
    /\ ReportIdle
    /\ ResolverIdle
    /\ MultiplierIdle
    /\ AsideIdle

NextUsb ==
    \/ \E k \in BOOLEAN, si \in StatusIntervals : UsbStart(k, si)
    \/ Stop
    \/ StatusCheck
    \/ StartProbed
    \/ CallPrintText(<<97>>, <<>>)
    \/ PrintText
    \/ DoPrintConnect
    \/ DoPrintSend
    \/ DoPrintFinally
    \/ PostPrint
    \/ AcquireControl
    \/ ControlConnect
    \/ AfterConnect
    \/ ControlCommand
    \/ AfterCommand
    \/ ReleaseControl
    \/ LeaveControl

SpecUsb == InitUsb /\ [][NextUsb]_vars

(***************************************************************************)
(* The entry points that print a text: notify.py (print_message),          *)
(* services/print_handlers.py (handle_print_text_utf8) and                 *)
(* device_action/actions.py (_call_print_text_utf8).                       *)
(***************************************************************************)

EntryPoints == {"print_message", "print_text_utf8", "device_action"}

MessageAlphabet == {97, 8482, 20013}

MessageTexts == UNION {[1..n -> MessageAlphabet] : n \in 0..MaxLen}

TitleChoices == {<<>>, <<84>>}

\* Values of the encoding argument: absent, a codec the runtime knows, and
\* one it does not.
EncodingChoices ==
    { <<>>,
      <<"c", "p", "4", "3", "7">>,
      <<"n", "o", "p", "e">> }

\* Values of the codepage option of the configuration.
ConfigCodepages ==
    { <<>>,
      <<"C", "P", "4", "3", "7">>,
      <<"C", "P", "1", "2", "5", "2">>,
      <<"N", "O", "T", "_", "A", "_", "R", "E", "A", "L", "_",
        "C", "O", "D", "E", "P", "A", "G", "E">> }

\* Values of the line_width option of the configuration.
LineWidths == {0, 1, 48}

\* config.codepage or "CP437"
ConfiguredCodepage ==
    IF config_codepage # <<>>
    THEN config_codepage
    ELSE <<"C", "P", "4", "3", "7">>

\* f"{title}\n{message}" if title else message
TitledText ==
    IF title # <<>> THEN title \o <<10>> \o message ELSE message

\* The entry point calls transcode_to_codepage(t, codepage) with the
\* defaults of its other arguments.
StartTranscode(t) ==
    /\ text' = t
    /\ codepage' = ConfiguredCodepage
    /\ pc' = "entry"
    /\ e_pc' = "transcoding"
    /\ UNCHANGED <<replace_char, apply_lookalikes, apply_accents, locals,
                   result, pass, prev, printVars>>

\* The entry point calls adapter.print_text(text=t, encoding=e).
StartPrint(t, e) ==
    /\ p_pc' = "called"
    /\ p_text' = t
    /\ p_encoding' = e
    /\ e_pc' = "printing"
    /\ UNCHANGED <<text_to_print, p_result, wire, p_printer>>

\* EscposNotifyEntity.print_message(message=, title=, utf8=, encoding=)
PrintMessage ==
    /\ via = "print_message"
    /\ e_pc = "entry"
    /\ IF utf8
       THEN StartTranscode(TitledText)
       ELSE /\ StartPrint(TitledText, encoding)
            /\ UNCHANGED transcodeVars
    /\ UNCHANGED <<via, message, title, utf8, encoding, e_result, adapterVars,
                   configVars, watchVars, controlVars, tables, reportVars, resolverVars,
                   multiplierVars, aside>>

\* handle_print_text_utf8(call), for one target entry
HandlePrintTextUtf8 ==
    /\ via = "print_text_utf8"
    /\ e_pc = "entry"
    /\ StartTranscode(message)
    /\ UNCHANGED <<via, message, title, utf8, encoding, e_result, adapterVars,
                   configVars, watchVars, controlVars, tables, reportVars, resolverVars,
                   multiplierVars, aside>>

\* _call_print_text_utf8(hass, adapter, defaults, config, entry_data)
CallPrintTextUtf8 ==
    /\ via = "device_action"
    /\ e_pc = "entry"
    /\ StartTranscode(message)
    /\ UNCHANGED <<via, message, title, utf8, encoding, e_result, adapterVars,
                   configVars, watchVars, controlVars, tables, reportVars, resolverVars,
                   multiplierVars, aside>>

\* The exception an entry point lets out for exception e.
LetOut(e) ==
    IF via = "print_text_utf8" THEN Raised("HomeAssistantError") ELSE Raised(e)

\* A hand-over that leaves the caller's encoding in place.
PrintTranscoded_KeepsEncoding ==
    /\ e_pc = "transcoding"
    /\ pc = "done"
    /\ IF result.kind = "return"
       THEN /\ StartPrint(result.value, encoding)
            /\ UNCHANGED e_result
       ELSE /\ e_pc' = "done"
            /\ e_result' = LetOut(result.exc)
            /\ UNCHANGED printVars
    /\ UNCHANGED <<via, message, title, utf8, encoding, adapterVars,
                   configVars, watchVars, controlVars, transcodeVars, tables, reportVars,
                   resolverVars, multiplierVars, aside>>

\* The entry point hands what transcode_to_codepage returned to print_text,
\* with encoding=None.
PrintTranscoded ==
    /\ e_pc = "transcoding"
    /\ pc = "done"
    /\ IF result.kind = "return"
       THEN /\ StartPrint(result.value, <<>>)
            /\ UNCHANGED e_result
       ELSE /\ e_pc' = "done"
            /\ e_result' = LetOut(result.exc)
            /\ UNCHANGED printVars
    /\ UNCHANGED <<via, message, title, utf8, encoding, adapterVars,
                   configVars, watchVars, controlVars, transcodeVars, tables, reportVars,
                   resolverVars, multiplierVars, aside>>

\* print_text has returned or raised: so does the entry point.
RequestDone ==
    /\ e_pc = "printing"
    /\ p_pc = "done"
    /\ e_pc' = "done"
    /\ e_result' = IF p_result.kind = "raise"
                   THEN LetOut(p_result.exc)
                   ELSE p_result
    /\ UNCHANGED <<via, message, title, utf8, encoding, adapterVars,
                   configVars, watchVars, printVars, controlVars,
                   transcodeVars, tables,
                   reportVars, resolverVars, multiplierVars, aside>>

\* One request to print, on a started adapter that is idle.
InitNotify ==
    /\ via \in EntryPoints
    /\ e_pc = "entry"
    /\ message \in MessageTexts
    /\ title \in (IF via = "print_message" THEN TitleChoices ELSE {<<>>})
    /\ utf8 \in (IF via = "print_message" THEN BOOLEAN ELSE {FALSE})
    /\ encoding \in EncodingChoices
    /\ e_result = NoResult
    /\ connection_type = "network"
    /\ _keepalive \in BOOLEAN
    /\ _printer = (IF _keepalive THEN "connection" ELSE "None")
    /\ connections = (IF _keepalive THEN 1 ELSE 0)
    /\ keepalive = _keepalive
    /\ _status_interval = 0
    /\ _cancel_status = FALSE
    /\ _status = "None"
    /\ _lock = "free"
    /\ ops = 0
    /\ config_codepage \in ConfigCodepages
    /\ line_width \in LineWidths
    /\ timers = 0
    /\ _status_listeners = <<>>
    /\ heard = NoEvent
    /\ lifecycle = "started"
    /\ s_pc = NoStarts
    /\ PrintIdle
    /\ ControlIdle
    /\ TranscodeNotCalled
    /\ TablesLoaded
    /\ ReportIdle
    /\ ResolverIdle
    /\ MultiplierIdle
    /\ AsideIdle

NextNotify ==
    \/ PrintMessage
    \/ HandlePrintTextUtf8
    \/ CallPrintTextUtf8
    \/ ReturnEmpty
    \/ Normalize
    \/ ProbeCodec
    \/ TryNative
    \/ TryLookalike
    \/ TryAccent
    \/ EmitPlaceholder
    \/ Return
    \/ PrintTranscoded
    \/ PrintText
    \/ DoPrintConnect
    \/ DoPrintRead
    \/ DoPrintSend
    \/ DoPrintFinally
    \/ PostPrint
    \/ RequestDone

SpecNotify == InitNotify /\ [][NextNotify]_vars

(***************************************************************************)
(* _wrap_text called on its own (printer/base_adapter.py).                 *)
(***************************************************************************)

\* Texts handed to _wrap_text: letters and newlines.
WrapTexts == UNION {[1..n -> {97, 10}] : n \in 0..MaxWrapLen}

\* w_result = self._wrap_text(w_text)
WrapText ==
    /\ w_result = NoResult
    /\ w_result' = Returned(_wrap_text(w_text))
    /\ UNCHANGED <<w_text, choiceVars, applyVars, connectVars, taskVars, transcodeVars, tables,
                   reportVars, resolverVars, multiplierVars, deviceVars>>

\* One call of _wrap_text on an adapter with some line width.
InitWrap ==
    /\ w_text \in WrapTexts
    /\ w_result = NoResult
    /\ line_width \in LineWidths
    /\ config_codepage = <<>>
    /\ connection_type = "network"
    /\ AdapterConstructed
    /\ WatchIdle
    /\ PrintIdle
    /\ ControlIdle
    /\ RequestIdle
    /\ TranscodeNotCalled
    /\ TablesLoaded
    /\ ReportIdle
    /\ ResolverIdle
    /\ MultiplierIdle
    /\ ChoicesIdle
    /\ ConnectIdle
    /\ TasksIdle
    /\ ApplyIdle

NextWrap == WrapText

SpecWrap == InitWrap /\ [][NextWrap]_vars

(***************************************************************************)
(* _build_usb_device_choices (_config_flow/usb_helpers.py).                *)
(***************************************************************************)

HexDigits ==
    <<"0", "1", "2", "3", "4", "5", "6", "7", "8", "9",
      "A", "B", "C", "D", "E", "F">>

\* f"{n:04X}", for n below 0x10000
Hex4(n) ==
    << HexDigits[((n \div 4096) % 16) + 1],
       HexDigits[((n \div 256) % 16) + 1],
       HexDigits[((n \div 16) % 16) + 1],
       HexDigits[(n % 16) + 1] >>

\* f"{n}", for a natural number
RECURSIVE Decimal(_)
Decimal(n) ==
    IF n < 10
    THEN <<HexDigits[n + 1]>>
    ELSE Decimal(n \div 10) \o <<HexDigits[(n % 10) + 1]>>

\* f"{vendor_id:04X}:{product_id:04X}"
VidPid(printer) ==
    Hex4(printer.vendor_id) \o <<":">> \o Hex4(printer.product_id)

\* dict.get(key, default)
DictGet(dict, key, default) ==
    IF key \in DOMAIN dict THEN dict[key] ELSE default

\* dict[key] = value
DictSet(dict, key, value) ==
    [k \in (DOMAIN dict) \cup {key} |-> IF k = key THEN value ELSE dict[k]]

BrowseAllKey ==
    <<"_", "_", "b", "r", "o", "w", "s", "e", "_", "a", "l", "l", "_", "_">>

ManualKey == <<"_", "_", "m", "a", "n", "u", "a", "l", "_", "_">>

\* A discovered device, as _discover_usb_printers describes it; serial is
\* <<>> when the device reports none.
Device(vid, pid, serial) ==
    [vendor_id |-> vid,
     product_id |-> pid,
     serial_number |-> serial,
     label |-> <<"P">> \o Hex4(vid) \o <<":">> \o Hex4(pid),
     _choice_key |-> <<>>]

\* 04B8:0E15 and 04B8:0202, with and without serial numbers.
DeviceChoices ==
    { Device(1208, pid, serial) :
        pid \in {3605, 514}, serial \in {<<>>, <<"A">>, <<"B">>} }

DeviceLists == UNION {[1..n -> DeviceChoices] : n \in 0..MaxDevices}

\* The choice key of a device with a serial number.
SerialKey(printer) == VidPid(printer) \o <<":">> \o printer.serial_number

\* The choice key of a device without one: its rank among the devices of
\* its VID:PID that have none.
CountKey(printer, count) == VidPid(printer) \o <<"#">> \o Decimal(count)

\* One turn of the loop over printers.
BuildChoice ==
    /\ b_result = NoResult
    /\ b_idx < Len(printers)
    /\ LET printer == printers[b_idx + 1]
           vid_pid == VidPid(printer)
           count == DictGet(vid_pid_counts, vid_pid, 0)
           key == IF printer.serial_number # <<>>
                  THEN SerialKey(printer)
                  ELSE CountKey(printer, count)
       IN /\ vid_pid_counts' =
                 IF printer.serial_number # <<>>
                 THEN vid_pid_counts
                 ELSE DictSet(vid_pid_counts, vid_pid, count + 1)
          /\ printers' = [printers EXCEPT ![b_idx + 1]._choice_key = key]
          /\ device_choices' = DictSet(device_choices, key, printer.label)
    /\ b_idx' = b_idx + 1
    /\ UNCHANGED <<include_browse_all, b_result, wrapVars, applyVars, connectVars, taskVars,
                   transcodeVars, tables, reportVars, resolverVars,
                   multiplierVars, deviceVars>>

\* After the loop: the fixed choices are added and the dict returned.
ReturnChoices ==
    /\ b_result = NoResult
    /\ b_idx = Len(printers)
    /\ LET browse == IF include_browse_all
                     THEN DictSet(device_choices, BrowseAllKey, <<"B">>)
                     ELSE device_choices
       IN device_choices' = DictSet(browse, ManualKey, <<"M">>)
    /\ b_result' = Returned(device_choices')
    /\ UNCHANGED <<printers, include_browse_all, vid_pid_counts, b_idx,
                   wrapVars, applyVars, connectVars, taskVars, transcodeVars, tables, reportVars,
                   resolverVars, multiplierVars, deviceVars>>

InitChoices ==
    /\ printers \in DeviceLists
    /\ include_browse_all \in BOOLEAN
    /\ device_choices = <<>>
    /\ vid_pid_counts = <<>>
    /\ b_idx = 0
    /\ b_result = NoResult
    /\ WrapIdle
    /\ ConnectIdle
    /\ TasksIdle
    /\ ApplyIdle
    /\ DeviceIdle
    /\ TranscodeNotCalled
    /\ TablesLoaded
    /\ ReportIdle
    /\ ResolverIdle
    /\ MultiplierIdle

NextChoices ==
    \/ BuildChoice
    \/ ReturnChoices

SpecChoices == InitChoices /\ [][NextChoices]_vars

(***************************************************************************)
(* UsbPrinterAdapter._connect (printer/usb_adapter.py).                    *)
(***************************************************************************)

\* An open attempt that returns a connection.
Opened == [usb_error |-> FALSE, errno |-> 0, message |-> "opened"]

\* _connect returns the connection of open attempt n.
Connection(n) == [kind |-> "return", attempt |-> n, exc |-> None]

\* _connect lets exc out.
RaisedExc(exc) == [kind |-> "raise", attempt |-> 0, exc |-> exc]

\* An open attempt succeeds: _connect returns the connection.
OpenSucceeds ==
    /\ k_result.kind = "none"
    /\ attempt <= _CONNECT_RETRIES
    /\ opens' = Append(opens, Opened)
    /\ k_result' = Connection(attempt + 1)
    /\ UNCHANGED <<attempt, last_exc, _last_error_errno, wrapVars, choiceVars,
                   applyVars, taskVars,
                   transcodeVars, tables, reportVars, resolverVars,
                   multiplierVars, deviceVars>>

\* A handler that sleeps and tries again after any failure while attempts
\* remain.
OpenFails_RetriesAll(exc) ==
    /\ k_result.kind = "none"
    /\ attempt <= _CONNECT_RETRIES
    /\ opens' = Append(opens, exc)
    /\ last_exc' = exc
    /\ _last_error_errno' = exc.errno
    /\ IF attempt >= _CONNECT_RETRIES
       THEN /\ k_result' = RaisedExc(exc)
            /\ UNCHANGED attempt
       ELSE /\ attempt' = attempt + 1
            /\ UNCHANGED k_result
    /\ UNCHANGED <<wrapVars, choiceVars, applyVars, taskVars, transcodeVars, tables, reportVars,
                   resolverVars, multiplierVars, deviceVars>>

\* An open attempt raises exc: the except clause of the loop.
OpenFails(exc) ==
    /\ k_result.kind = "none"
    /\ attempt <= _CONNECT_RETRIES
    /\ opens' = Append(opens, exc)
    /\ last_exc' = exc
    /\ _last_error_errno' = exc.errno
    /\ IF attempt >= _CONNECT_RETRIES \/ ~_is_retryable(exc)
       THEN /\ k_result' = RaisedExc(exc)
            /\ UNCHANGED attempt
       ELSE /\ attempt' = attempt + 1
            /\ UNCHANGED k_result
    /\ UNCHANGED <<wrapVars, choiceVars, applyVars, taskVars, transcodeVars, tables, reportVars,
                   resolverVars, multiplierVars, deviceVars>>

InitConnect ==
    /\ ConnectIdle
    /\ WrapIdle
    /\ ChoicesIdle
    /\ TasksIdle
    /\ ApplyIdle
    /\ DeviceIdle
    /\ TranscodeNotCalled
    /\ TablesLoaded
    /\ ReportIdle
    /\ ResolverIdle
    /\ MultiplierIdle

NextConnect ==
    \/ OpenSucceeds
    \/ \E exc \in OpenFailures : OpenFails(exc)

\* Every open attempt returns or raises: the device times out.
SpecConnect == InitConnect /\ [][NextConnect]_vars /\ WF_vars(NextConnect)

(***************************************************************************)
(* The life of one network adapter: start, stop, status checks, status     *)
(* listeners and prints (printer/base_adapter.py,                          *)
(* printer/network_adapter.py).                                            *)
(***************************************************************************)

\* The callbacks that register: the binary sensor of the integration and
\* one more.
Listeners == {"binary_sensor", "other"}

\* NetworkPrinterAdapter.start(hass, keepalive=k, status_interval=si): the
\* start of the base class.
NetworkStart(k, si) ==
    /\ ops < MaxOps
    /\ ops' = ops + 1
    /\ keepalive' = k
    /\ BaseStart(k, si)
    /\ UNCHANGED <<_lock, _status_listeners, printVars, controlVars,
                   taskVars>>
    /\ Elsewhere

\* add_status_listener(callback)
AddStatusListener(callback) ==
    /\ ops < MaxOps
    /\ ops' = ops + 1
    /\ Len(_status_listeners) < MaxListeners
    /\ _status_listeners' = Append(_status_listeners, callback)
    /\ UNCHANGED <<_keepalive, _printer, _status_interval, _cancel_status,
                   _status, _lock, keepalive, connections, timers, heard,
                   lifecycle, s_pc, configVars, printVars, controlVars,
                   requestVars,
                   transcodeVars, tables, reportVars, resolverVars,
                   multiplierVars, aside>>

\* list.remove(x): the list without the first occurrence of x.
RECURSIVE ListRemove(_, _)
ListRemove(list, x) ==
    IF list = <<>>
    THEN <<>>
    ELSE IF Head(list) = x
         THEN Tail(list)
         ELSE <<Head(list)>> \o ListRemove(Tail(list), x)

\* The _remove function add_status_listener returned for callback is
\* called.
RemoveStatusListener(callback) ==
    /\ ops < MaxOps
    /\ ops' = ops + 1
    /\ _status_listeners' = ListRemove(_status_listeners, callback)
    /\ UNCHANGED <<_keepalive, _printer, _status_interval, _cancel_status,
                   _status, _lock, keepalive, connections, timers, heard,
                   lifecycle, s_pc, configVars, printVars, controlVars,
                   requestVars,
                   transcodeVars, tables, reportVars, resolverVars,
                   multiplierVars, aside>>

\* A NetworkPrinterAdapter after construction, with the default
\* configuration.
InitLife ==
    /\ AdapterConstructed
    /\ ConfigDefault
    /\ WatchIdle
    /\ PrintIdle
    /\ ControlIdle
    /\ RequestIdle
    /\ TranscodeNotCalled
    /\ TablesLoaded
    /\ ReportIdle
    /\ ResolverIdle
    /\ MultiplierIdle
    /\ AsideIdle

NextLife ==
    \/ \E k \in BOOLEAN, si \in StatusIntervals : NetworkStart(k, si)
    \/ Stop
    \/ StatusCheck
    \/ \E callback \in Listeners : AddStatusListener(callback)
    \/ \E callback \in Listeners : RemoveStatusListener(callback)
    \/ StartConnect
    \/ StartConnected
    \/ StartProbed
    \/ CallPrintText(<<97>>, <<>>)
    \/ PrintText
    \/ DoPrintConnect
    \/ DoPrintRead
    \/ DoPrintSend
    \/ DoPrintFinally
    \/ PostPrint

SpecLife == InitLife /\ [][NextLife]_vars

(***************************************************************************)
(* Concurrent calls of print_text, print_qr, print_image, print_barcode,   *)
(* feed, cut and beep on one adapter (printer/print_operations.py,         *)
(* printer/barcode_operations.py, printer/control_operations.py), with     *)
(* start and stop of the adapter.                                          *)
(***************************************************************************)

\* The operations that print content and then feed and cut.
PrintOperations == {"print_text", "print_qr", "print_image", "print_barcode"}

\* The operations that send one control command.
ControlOperations == {"feed", "cut", "beep"}

\* Cut modes handed to the operations: None, "partial", "PARTIAL", "full",
\* "none", "" and an unknown word.
CutModes ==
    {NoneValue,
     StrValue(<<"p", "a", "r", "t", "i", "a", "l">>),
     StrValue(<<"P", "A", "R", "T", "I", "A", "L">>),
     StrValue(<<"f", "u", "l", "l">>),
     StrValue(<<"n", "o", "n", "e">>),
     StrValue(<<>>),
     StrValue(<<"h", "a", "l", "f">>)}

\* The calls of the print operations: operation, feed and cut.  feed is
\* None, 0 or 2 lines; the callers' schemas admit 0 to 10.
PrintCalls ==
    {<<"print_text", IntValue(2),
       StrValue(<<"P", "A", "R", "T", "I", "A", "L">>)>>,
     <<"print_text", IntValue(0), StrValue(<<"f", "u", "l", "l">>)>>,
     <<"print_text", IntValue(2), StrValue(<<"n", "o", "n", "e">>)>>,
     <<"print_text", NoneValue, NoneValue>>,
     <<"print_qr", IntValue(2), StrValue(<<"f", "u", "l", "l">>)>>,
     <<"print_image", IntValue(0), StrValue(<<"h", "a", "l", "f">>)>>,
     <<"print_barcode", NoneValue,
       StrValue(<<"p", "a", "r", "t", "i", "a", "l">>)>>}

\* The calls of the control operations: operation and, for cut, the mode.
ControlCalls ==
    {<<"feed", NoneValue>>, <<"beep", NoneValue>>}
    \cup {<<"cut", mode>> : mode \in CutModes \ {NoneValue}}

\* The callers call in their order.
Turn(t) == \A u \in Tasks : u < t => tasks[u].pc # "idle"

\* map_cut(mode)
map_cut(mode) ==
    IF mode.type = "NoneType" \/ mode.str = <<>>
    THEN "None"
    ELSE IF Lower(mode.str) = <<"p", "a", "r", "t", "i", "a", "l">>
    THEN "PART"
    ELSE IF Lower(mode.str) = <<"f", "u", "l", "l">>
    THEN "FULL"
    ELSE "None"

\* A command issued to the printer and whether the printer took it.
Command(cmd, mode, ok) == [cmd |-> cmd, mode |-> mode, ok |-> ok]

\* The names of the commands of a list, in order.
Names(sent) == [i \in 1..Len(sent) |-> sent[i].cmd]

\* cut: a mode that maps to no cut is left as map_cut gave it.
cut_mode_Unmapped(mode) == map_cut(mode)

\* cut: cut_mode = map_cut(mode), "FULL" when that is empty.
cut_mode(mode) ==
    IF map_cut(mode) = "None" THEN "FULL" ELSE map_cut(mode)

\* What the task actions leave alone.
TaskFrame ==
    UNCHANGED <<_keepalive, _status_interval, _cancel_status, keepalive,
                timers, _status_listeners, lifecycle, s_pc, configVars,
                printVars, controlVars, requestVars, transcodeVars, tables,
                reportVars, resolverVars, multiplierVars, wrapVars,
                choiceVars, applyVars, connectLocals>>

\* The call as the validation of its arguments leaves it: at the lock, or
\* ended by the exception of the validation.
Validated(task, accepted) ==
    IF accepted
    THEN [task EXCEPT !.pc = "lock"]
    ELSE [task EXCEPT !.pc = "done", !.result = "raised"]

\* The operations that validate arguments before they ask for the lock:
\* the text, the QR data, the image source, the barcode's data, height and
\* width, the beep's times and duration.  feed and cut validate nothing.
Validating == PrintOperations \cup {"beep"}

\* A print operation is called: what precedes "async with self._lock", the
\* validation of the arguments.
CallPrint(t, op, feed, cut) ==
    /\ ops < MaxOps
    /\ ops' = ops + 1
    /\ tasks[t].pc = "idle"
    /\ Turn(t)
    /\ \E accepted \in BOOLEAN :
          tasks' = [tasks EXCEPT ![t] =
                       Validated([NoTask EXCEPT !.op = op, !.feed = feed,
                                                !.cut = cut], accepted)]
    /\ UNCHANGED <<_lock, _printer, connections, _status, heard,
                   _last_error_errno>>
    /\ TaskFrame

\* feed, cut or beep is called: what precedes "async with self._lock".
CallControl(t, op, mode) ==
    /\ ops < MaxOps
    /\ ops' = ops + 1
    /\ tasks[t].pc = "idle"
    /\ Turn(t)
    /\ \E accepted \in (IF op \in Validating THEN BOOLEAN ELSE {TRUE}) :
          tasks' = [tasks EXCEPT ![t] =
                       Validated([NoTask EXCEPT !.op = op, !.cut = mode],
                                 accepted)]
    /\ UNCHANGED <<_lock, _printer, connections, _status, heard,
                   _last_error_errno>>
    /\ TaskFrame

\* The caller with the lock, up to its first await: a print operation hands
\* _do_print to the executor; feed, cut and beep call _acquire_printer,
\* which returns the stored connection at once or hands _connect to the
\* executor.
Entered(task) ==
    IF task.op \in PrintOperations
    THEN [task EXCEPT !.pc = "do_print"]
    ELSE IF UsesStored
    THEN [task EXCEPT !.printer = "stored", !.owned = FALSE,
                      !.pc = "command"]
    ELSE [task EXCEPT !.pc = "acquire"]

\* The lock taken without waiting for it.
Enter_NoWait(t) ==
    /\ tasks[t].pc = "lock"
    /\ _lock' = "locked"
    /\ tasks' = [tasks EXCEPT ![t] = Entered(tasks[t])]
    /\ UNCHANGED <<ops, _printer, connections, _status, heard,
                   _last_error_errno>>
    /\ TaskFrame

\* async with self._lock: the lock is taken once it is free.
Enter(t) ==
    /\ tasks[t].pc = "lock"
    /\ _lock = "free"
    /\ _lock' = "locked"
    /\ tasks' = [tasks EXCEPT ![t] = Entered(tasks[t])]
    /\ UNCHANGED <<ops, _printer, connections, _status, heard,
                   _last_error_errno>>
    /\ TaskFrame

\* The operation leaves "async with self._lock" with an exception.
Leaves(task) == [task EXCEPT !.pc = "done", !.result = "raised",
                            !.printer = "None"]

\* The caller's job after one open attempt of its _connect: with the
\* connection it goes on to next, with the exception it ends at failed,
\* and after a failure to retry it is at its next attempt.
Attempted(task, try, next, failed) ==
    CASE try.end = "connected" ->
             [task EXCEPT !.printer = "own", !.opened = @ + 1,
                          !.attempt = 0, !.pc = next]
      [] try.end = "raised" ->
             [task EXCEPT !.result = "raised", !.attempt = 0, !.pc = failed]
      [] try.end = "retry" ->
             [task EXCEPT !.attempt = @ + 1]

\* _do_print in its thread: the condition of the conditional expression
\* that takes the connection, by the fields as they are when the job reads
\* them, and, without a stored connection to use, one open attempt of
\* _connect per step.  With a stored connection the job goes on to read
\* it; a _connect that raises ends the job.
PrintConnect(t) ==
    /\ tasks[t].pc = "do_print"
    /\ IF tasks[t].attempt = 0 /\ UsesStored
       THEN /\ tasks' = [tasks EXCEPT ![t].pc = "read"]
            /\ UNCHANGED <<connections, _last_error_errno>>
       ELSE \E try \in OpenAttempt(tasks[t].attempt) :
               /\ _last_error_errno' = Errno(try)
               /\ tasks' = [tasks EXCEPT ![t] =
                               Attempted(@, try, "content", "post")]
               /\ connections' = IF try.end = "connected"
                                 THEN connections + 1
                                 ELSE connections
    /\ UNCHANGED <<ops, _lock, _printer, _status, heard>>
    /\ TaskFrame

\* _do_print in its thread: the second read of self._printer.
PrintRead(t) ==
    /\ tasks[t].pc = "read"
    /\ tasks' = [tasks EXCEPT ![t] =
                    [@ EXCEPT !.printer = ReadStored, !.pc = "content"]]
    /\ UNCHANGED <<ops, _lock, _printer, connections, _status, heard,
                   _last_error_errno>>
    /\ TaskFrame

\* _do_print in its thread: the content is sent.  When the job read None
\* for the printer, nothing is sent and the job raises.
SendContent(t) ==
    /\ tasks[t].pc = "content"
    /\ IF tasks[t].printer = "no_printer"
       THEN tasks' = [tasks EXCEPT ![t] =
                         [@ EXCEPT !.result = "raised", !.pc = "finally"]]
       ELSE \E ok \in BOOLEAN :
               tasks' = [tasks EXCEPT ![t] =
                            [@ EXCEPT !.sent =
                                          Append(@, Command("content", "None",
                                                            ok)),
                                      !.result = IF ok THEN @ ELSE "raised",
                                      !.pc = "finally"]]
    /\ UNCHANGED <<ops, _lock, _printer, connections, _status, heard,
                   _last_error_errno>>
    /\ TaskFrame

\* finally: if not self._keepalive: printer.close(), by the field as it is
\* when it is read.
Close(task) ==
    IF ~_keepalive /\ task.printer = "own"
    THEN [task EXCEPT !.printer = "None", !.closed = @ + 1]
    ELSE [task EXCEPT !.printer = "None"]

\* The connections open after the finally clause of an operation that
\* holds the connection held, of conns open before it.
AfterClose(held, conns) ==
    IF /\ ~_keepalive
       /\ \/ held \in {"own", "replaced"}
          \/ held = "stored" /\ _printer = "connection"
    THEN conns - 1
    ELSE conns

\* The stored connection after the finally clause of an operation that
\* holds the connection held.
StoredAfterClose(held) ==
    IF ~_keepalive /\ held = "stored" THEN "closed" ELSE _printer

\* _do_print in its thread: its finally clause.
PrintFinally(t) ==
    /\ tasks[t].pc = "finally"
    /\ tasks' = [tasks EXCEPT ![t] = [Close(@) EXCEPT !.pc = "post"]]
    /\ connections' = AfterClose(tasks[t].printer, connections)
    /\ _printer' = StoredAfterClose(tasks[t].printer)
    /\ UNCHANGED <<ops, _lock, _status, heard, _last_error_errno>>
    /\ TaskFrame

\* _apply_cut_and_feed: the ways the validation of feed can end; a feed of
\* None is not validated.
FeedLines(task) ==
    IF task.feed.type = "NoneType"
    THEN {[kind |-> "none", value |-> 0]}
    ELSE validate_numeric_input(task.feed.int)

\* _apply_cut_and_feed feeds whatever the number of lines.
FeedsLines_Always(lines) == lines.kind = "return"

\* _apply_cut_and_feed feeds when the validated feed is a positive number
\* of lines.
FeedsLines(lines) == lines.kind = "return" /\ lines.value > 0

\* _apply_cut_and_feed after its feed: the cut job when map_cut gives a
\* mode, the end of the operation otherwise.
AfterFeed(task) == IF map_cut(task.cut) # "None" THEN "cut" ELSE "ok"

\* _apply_cut_and_feed from its start, the validation of feed having ended
\* with lines: its exception ends the operation.
AfterPost(task, lines) ==
    IF lines.kind = "raise"
    THEN "raised"
    ELSE IF FeedsLines(lines) THEN "feed" ELSE AfterFeed(task)

\* The print operation, holding task.printer with conns connections open
\* and errno in _last_error_errno, goes on to its next await, or ends: the
\* finally clause, the release of the lock and, in a print_text that
\* succeeded, _mark_success.
Proceed(t, task, conns, errno, next) ==
    IF next \in {"feed", "cut"}
    THEN /\ tasks' = [tasks EXCEPT ![t] = [task EXCEPT !.pc = next]]
         /\ connections' = conns
         /\ _last_error_errno' = errno
         /\ UNCHANGED <<_lock, _printer, _status, heard>>
    ELSE /\ tasks' = [tasks EXCEPT ![t] =
                         [Close(task) EXCEPT !.pc = "done",
                                             !.result = next]]
         /\ connections' = AfterClose(task.printer, conns)
         /\ _printer' = StoredAfterClose(task.printer)
         /\ _lock' = "free"
         /\ IF next = "ok" /\ task.op = "print_text"
            THEN MarkSuccess
            ELSE /\ _last_error_errno' = errno
                 /\ UNCHANGED <<_status, heard>>

\* The print operation resumes after _do_print.  An exception of the job
\* leaves the lock with it; otherwise printer_for_post is taken, by a
\* _connect on the event loop when no stored connection is used, and
\* _apply_cut_and_feed called, which validates the feed.
PostConnect(t) ==
    /\ tasks[t].pc = "post"
    /\ IF tasks[t].result = "raised"
       THEN /\ tasks' = [tasks EXCEPT ![t] = Leaves(@)]
            /\ _lock' = "free"
            /\ UNCHANGED <<_printer, connections, _status, heard,
                           _last_error_errno>>
       ELSE IF UsesStored
       THEN \E lines \in FeedLines(tasks[t]) :
               Proceed(t, [tasks[t] EXCEPT !.printer = "stored"], connections,
                       _last_error_errno, AfterPost(tasks[t], lines))
       ELSE \E end \in ConnectEnds, lines \in FeedLines(tasks[t]) :
               IF end.connected
               THEN Proceed(t, [tasks[t] EXCEPT !.printer = "own",
                                               !.opened = @ + 1],
                            connections + 1, Errno(end),
                            AfterPost(tasks[t], lines))
               ELSE /\ tasks' = [tasks EXCEPT ![t] = Leaves(@)]
                    /\ _lock' = "free"
                    /\ _last_error_errno' = Errno(end)
                    /\ UNCHANGED <<_printer, connections, _status, heard>>
    /\ UNCHANGED ops
    /\ TaskFrame

\* _apply_cut_and_feed: the job _feed, in its thread.
ApplyFeed(t) ==
    /\ tasks[t].pc = "feed"
    /\ \E ok \in BOOLEAN :
          tasks' = [tasks EXCEPT ![t] =
                       [@ EXCEPT !.sent = Append(@, Command("feed", "None",
                                                            ok)),
                                 !.result = IF ok THEN @ ELSE "raised",
                                 !.pc = "fed"]]
    /\ UNCHANGED <<ops, _lock, _printer, connections, _status, heard,
                   _last_error_errno>>
    /\ TaskFrame

\* _apply_cut_and_feed resumes after the job _feed.  An exception of the
\* job ends the operation through its finally clause.
ResumeFeed(t) ==
    /\ tasks[t].pc = "fed"
    /\ Proceed(t, tasks[t], connections, _last_error_errno,
               IF tasks[t].result = "raised"
               THEN "raised"
               ELSE AfterFeed(tasks[t]))
    /\ UNCHANGED ops
    /\ TaskFrame

\* _apply_cut_and_feed: the job _cut, in its thread.  The printer takes
\* the cut or refuses it; the job swallows the exception of a refused cut,
\* and the operation goes on the same.
ApplyCut(t) ==
    /\ tasks[t].pc = "cut"
    /\ \E ok \in BOOLEAN :
          tasks' = [tasks EXCEPT ![t] =
                       [@ EXCEPT !.sent = Append(@, Command("cut",
                                                            map_cut(tasks[t].cut),
                                                            ok)),
                                 !.pc = "cut_done"]]
    /\ UNCHANGED <<ops, _lock, _printer, connections, _status, heard,
                   _last_error_errno>>
    /\ TaskFrame

\* _apply_cut_and_feed resumes after the job _cut: the end of the
\* operation.
ResumeCut(t) ==
    /\ tasks[t].pc = "cut_done"
    /\ Proceed(t, tasks[t], connections, _last_error_errno, "ok")
    /\ UNCHANGED ops
    /\ TaskFrame

\* feed, cut, beep: the job of _acquire_printer runs _connect, in its
\* thread, one open attempt per step.  The job ends when _connect returns
\* the connection or raises; the operation holds the lock until it is
\* resumed.
AcquirePrinter(t) ==
    /\ tasks[t].pc = "acquire"
    /\ \E try \in OpenAttempt(tasks[t].attempt) :
          /\ _last_error_errno' = Errno(try)
          /\ tasks' = [tasks EXCEPT ![t] =
                          Attempted(@, try, "acquired", "acquire_failed")]
          /\ connections' = IF try.end = "connected"
                            THEN connections + 1
                            ELSE connections
    /\ UNCHANGED <<ops, _lock, _printer, _status, heard>>
    /\ TaskFrame

\* feed, cut, beep resumes after the job of _acquire_printer: with the
\* connection, which it owns, it hands the command to the executor; with
\* the exception of _connect it leaves the lock and raises.
ResumeAcquire(t) ==
    /\ tasks[t].pc \in {"acquired", "acquire_failed"}
    /\ IF tasks[t].pc = "acquired"
       THEN /\ tasks' = [tasks EXCEPT ![t] =
                           [@ EXCEPT !.owned = TRUE, !.pc = "command"]]
            /\ UNCHANGED _lock
       ELSE /\ tasks' = [tasks EXCEPT ![t] = Leaves(@)]
            /\ _lock' = "free"
    /\ UNCHANGED <<ops, _printer, connections, _status, heard,
                   _last_error_errno>>
    /\ TaskFrame

\* The command feed, cut or beep sends.
CommandOf(task, ok) ==
    IF task.op = "cut"
    THEN Command("cut", cut_mode(task.cut), ok)
    ELSE Command(task.op, "None", ok)

\* feed, cut, beep: the job sends the command, in its thread; beep swallows
\* the exceptions of its command.
SendCommand(t) ==
    /\ tasks[t].pc = "command"
    /\ \E ok \in BOOLEAN :
          tasks' = [tasks EXCEPT ![t] =
                       [@ EXCEPT !.sent = Append(@, CommandOf(tasks[t], ok)),
                                 !.result = IF ok \/ tasks[t].op = "beep"
                                            THEN "ok"
                                            ELSE "raised",
                                 !.pc = "sent"]]
    /\ UNCHANGED <<ops, _lock, _printer, connections, _status, heard,
                   _last_error_errno>>
    /\ TaskFrame

\* feed, cut, beep resumes after the job: _release_printer hands the close
\* of an owned connection to the executor; with the stored connection it
\* returns at once and the lock is released.
ResumeCommand(t) ==
    /\ tasks[t].pc = "sent"
    /\ IF tasks[t].owned
       THEN /\ tasks' = [tasks EXCEPT ![t].pc = "release"]
            /\ UNCHANGED _lock
       ELSE /\ tasks' = [tasks EXCEPT ![t] =
                           [@ EXCEPT !.printer = "None", !.pc = "done"]]
            /\ _lock' = "free"
    /\ UNCHANGED <<ops, _printer, connections, _status, heard,
                   _last_error_errno>>
    /\ TaskFrame

\* _release_printer: the job closes the owned connection.
ReleasePrinter(t) ==
    /\ tasks[t].pc = "release"
    /\ tasks' = [tasks EXCEPT ![t] =
                    [@ EXCEPT !.printer = "None", !.closed = @ + 1,
                              !.pc = "leave"]]
    /\ connections' = connections - 1
    /\ UNCHANGED <<ops, _lock, _printer, _status, heard, _last_error_errno>>
    /\ TaskFrame

\* feed, cut, beep resumes after the close and releases the lock.
LeaveLock(t) ==
    /\ tasks[t].pc = "leave"
    /\ tasks' = [tasks EXCEPT ![t].pc = "done"]
    /\ _lock' = "free"
    /\ UNCHANGED <<ops, _printer, connections, _status, heard,
                   _last_error_errno>>
    /\ TaskFrame

\* A NetworkPrinterAdapter after construction, with the default
\* configuration, and callers that have called nothing.
InitTasks ==
    /\ AdapterConstructed
    /\ ConfigDefault
    /\ WatchIdle
    /\ PrintIdle
    /\ ControlIdle
    /\ RequestIdle
    /\ TranscodeNotCalled
    /\ TablesLoaded
    /\ ReportIdle
    /\ ResolverIdle
    /\ MultiplierIdle
    /\ AsideIdle

\* The calls made while start and stop run, one of each operation: a
\* print_text that feeds and cuts, a print_qr, a print_image and a
\* print_barcode that do neither, a feed, a cut and a beep.
RacingPrintCalls ==
    {<<"print_text", IntValue(2),
       StrValue(<<"P", "A", "R", "T", "I", "A", "L">>)>>,
     <<"print_qr", NoneValue, NoneValue>>,
     <<"print_image", NoneValue, NoneValue>>,
     <<"print_barcode", NoneValue, NoneValue>>}

RacingControlCalls ==
    {<<"feed", NoneValue>>,
     <<"cut", StrValue(<<"f", "u", "l", "l">>)>>,
     <<"beep", NoneValue>>}

NextTasks ==
    \/ \E k \in BOOLEAN : NetworkStart(k, 0)
    \/ StartConnect
    \/ StartConnected
    \/ Stop
    \/ \E t \in Tasks, call \in RacingPrintCalls :
          CallPrint(t, call[1], call[2], call[3])
    \/ \E t \in Tasks, call \in RacingControlCalls :
          CallControl(t, call[1], call[2])
    \/ \E t \in Tasks : Enter(t)
    \/ \E t \in Tasks : PrintConnect(t)
    \/ \E t \in Tasks : PrintRead(t)
    \/ \E t \in Tasks : SendContent(t)
    \/ \E t \in Tasks : PrintFinally(t)
    \/ \E t \in Tasks : PostConnect(t)
    \/ \E t \in Tasks : ApplyFeed(t)
    \/ \E t \in Tasks : ResumeFeed(t)
    \/ \E t \in Tasks : ApplyCut(t)
    \/ \E t \in Tasks : ResumeCut(t)
    \/ \E t \in Tasks : AcquirePrinter(t)
    \/ \E t \in Tasks : ResumeAcquire(t)
    \/ \E t \in Tasks : SendCommand(t)
    \/ \E t \in Tasks : ResumeCommand(t)
    \/ \E t \in Tasks : ReleasePrinter(t)
    \/ \E t \in Tasks : LeaveLock(t)

SpecTasks == InitTasks /\ [][NextTasks]_vars

(***************************************************************************)
(* The commands the print operations and feed, cut and beep send, for      *)
(* every call of them, on a started adapter.                               *)
(***************************************************************************)

\* A NetworkPrinterAdapter that start has returned from, with a connection
\* stored when connections are kept alive, and callers that have called
\* nothing.
InitCommands ==
    /\ _keepalive \in BOOLEAN
    /\ _printer = (IF _keepalive THEN "connection" ELSE "None")
    /\ connections = (IF _keepalive THEN 1 ELSE 0)
    /\ keepalive = _keepalive
    /\ _status_interval = 0
    /\ _cancel_status = FALSE
    /\ _status = "None"
    /\ _lock = "free"
    /\ ops = 0
    /\ timers = 0
    /\ _status_listeners = <<>>
    /\ heard = NoEvent
    /\ lifecycle = "started"
    /\ s_pc = NoStarts
    /\ ConfigDefault
    /\ PrintIdle
    /\ ControlIdle
    /\ RequestIdle
    /\ TranscodeNotCalled
    /\ TablesLoaded
    /\ ReportIdle
    /\ ResolverIdle
    /\ MultiplierIdle
    /\ AsideIdle

NextCommands ==
    \/ Stop
    \/ \E t \in Tasks, call \in PrintCalls :
          CallPrint(t, call[1], call[2], call[3])
    \/ \E t \in Tasks, call \in ControlCalls :
          CallControl(t, call[1], call[2])
    \/ \E t \in Tasks : Enter(t)
    \/ \E t \in Tasks : PrintConnect(t)
    \/ \E t \in Tasks : PrintRead(t)
    \/ \E t \in Tasks : SendContent(t)
    \/ \E t \in Tasks : PrintFinally(t)
    \/ \E t \in Tasks : PostConnect(t)
    \/ \E t \in Tasks : ApplyFeed(t)
    \/ \E t \in Tasks : ResumeFeed(t)
    \/ \E t \in Tasks : ApplyCut(t)
    \/ \E t \in Tasks : ResumeCut(t)
    \/ \E t \in Tasks : AcquirePrinter(t)
    \/ \E t \in Tasks : ResumeAcquire(t)
    \/ \E t \in Tasks : SendCommand(t)
    \/ \E t \in Tasks : ResumeCommand(t)
    \/ \E t \in Tasks : ReleasePrinter(t)
    \/ \E t \in Tasks : LeaveLock(t)

SpecCommands == InitCommands /\ [][NextCommands]_vars

(***************************************************************************)
(* Properties of transcode_to_codepage.                                    *)
(***************************************************************************)
Range(s) == {s[i] : i \in 1..Len(s)}

\* The codec the codepage argument resolves to.
ResolvedCodec == get_codec_name(codepage)

\* The resolved codec exists in the runtime and encodes the empty string.
CodecUsable == CodecProbe(ResolvedCodec) = "ok"

\* c is natively encodable in the resolved codec.
Native(c) == Encode(<<c>>, ResolvedCodec) = "ok"

\* The call was made with the default placeholder and both tiers enabled.
DefaultArgs ==
    /\ replace_char = DefaultPlaceholder
    /\ apply_lookalikes
    /\ apply_accents

\* The call has returned a string.
HasReturned == pc = "done" /\ result.kind = "return"

\* The look-alike tier yields an encodable replacement for c.
LookalikeYields(c) ==
    /\ apply_lookalikes
    /\ c \in DOMAIN LOOKALIKE_MAP
    /\ Encode(LOOKALIKE_MAP[c], ResolvedCodec) = "ok"

\* The accent tier yields an encodable replacement for c.
AccentYields(c) ==
    /\ apply_accents
    /\ c \in DOMAIN ACCENT_FALLBACK_MAP
    /\ Encode(ACCENT_FALLBACK_MAP[c], ResolvedCodec) = "ok"

\* C1 as stated: for every codepage name, every character of a returned
\* string is natively encodable in the resolved codec or is the placeholder.
C1_EveryCodepageOutputEncodable ==
    HasReturned =>
        \A i \in 1..Len(result.value) :
            Native(result.value[i]) \/ result.value[i] \in Range(replace_char)

\* C1 as amended: when the resolved codec exists in the runtime, every
\* character of a returned string is natively encodable in that codec or is
\* a character of the placeholder argument.
C1_OutputEncodable ==
    (HasReturned /\ CodecUsable) =>
        \A i \in 1..Len(result.value) :
            Native(result.value[i]) \/ result.value[i] \in Range(replace_char)

\* A call on a usable codec has returned a native character next to a
\* placeholder.
C1_Witness ==
    /\ HasReturned
    /\ CodecUsable
    /\ "native" \in Range(tiers)
    /\ "placeholder" \in Range(tiers)
    /\ result.value = Join(result_chars)

\* C2: transcode_to_codepage never lets an exception reach its caller.
C2_NeverRaises == result.kind # "raise"

\* C3: a single character that is natively encodable in the codec of the
\* codepage is returned unchanged.
C3_NativePreservation ==
    (pc = "done" /\ Len(text) = 1 /\ Native(text[1])) => result = Returned(text)

\* C4 as stated: with default arguments, transcoding the result of a call
\* again with the same codepage returns that result.
C4_RoundTripAlways ==
    (pc = "done" /\ pass > 1 /\ DefaultArgs) => result = prev

\* C4 as amended: with default arguments, transcoding the result of a call
\* again with the same codepage returns that result whenever NFKC
\* normalization leaves that result unchanged.
C4_RoundTripStable ==
    (pc = "done" /\ pass > 1 /\ DefaultArgs /\ normalize_unicode(text) = text)
        => result = prev

\* A second pass over a result that holds a placeholder of the first pass
\* has returned that result.
C4_Witness ==
    /\ HasReturned
    /\ pass > 1
    /\ DefaultArgs
    /\ CodecUsable
    /\ 63 \in Range(text)
    /\ normalize_unicode(text) = text
    /\ result = prev

\* C5: when the runtime does not know the resolved codec, the call returns
\* exactly the NFKC-normalized input and does not raise.
C5_UnknownCodepagePassthrough ==
    (pc = "done" /\ CodecProbe(ResolvedCodec) = "LookupError")
        => result = Returned(normalize_unicode(text))

\* An unknown codepage returned a text that normalization changed.
C5_Witness ==
    /\ pc = "done"
    /\ CodecProbe(ResolvedCodec) = "LookupError"
    /\ normalize_unicode(text) # text
    /\ result.value = normalize_unicode(text)
    /\ result_chars = <<>>

\* C6: with the look-alike tier enabled, a character of the normalized text
\* that is not natively encodable, is a key of LOOKALIKE_MAP and whose
\* replacement is encodable contributes exactly that replacement, and the
\* returned string is the concatenation of the contributions.
C6_LookalikeSubstitution ==
    /\ \A i \in 1..Len(result_chars) :
           (~Native(normalized[i]) /\ LookalikeYields(normalized[i]))
               => result_chars[i] = LOOKALIKE_MAP[normalized[i]]
    /\ (HasReturned /\ CodecUsable) =>
           /\ Len(result_chars) = Len(normalized)
           /\ result.value = Join(result_chars)

\* A call has replaced one character by a three-character replacement and
\* another by the empty replacement.
C6_Witness ==
    /\ HasReturned
    /\ \E i, j \in 1..Len(result_chars) :
           /\ tiers[i] = "lookalike" /\ Len(result_chars[i]) = 3
           /\ tiers[j] = "lookalike" /\ result_chars[j] = <<>>
    /\ Len(result.value) = 3

\* C7: with default arguments and a codec that exists, every key of the
\* universal group of LOOKALIKE_MAP is transcoded to its mapped replacement,
\* whatever the codepage.
C7_UniversalAlwaysReplaced ==
    (pc = "done" /\ Len(text) = 1 /\ text[1] \in UniversalKeys
        /\ DefaultArgs /\ CodecUsable)
        => result = Returned(LOOKALIKE_MAP[text[1]])

\* C8: a character of the normalized text that is not natively encodable
\* and for which no enabled tier yields an encodable replacement
\* contributes exactly the placeholder, and no piece taken from a fallback
\* map is emitted unless the codec encodes it.
C8_PlaceholderFallback ==
    \A i \in 1..Len(result_chars) :
        /\ (~Native(normalized[i]) /\ ~LookalikeYields(normalized[i])
                /\ ~AccentYields(normalized[i]))
               => (result_chars[i] = replace_char /\ tiers[i] = "placeholder")
        /\ tiers[i] \in {"lookalike", "accent"}
               => Encode(result_chars[i], ResolvedCodec) = "ok"

\* A key of LOOKALIKE_MAP whose replacement the codec cannot encode has
\* been replaced by the placeholder while the look-alike tier was enabled.
C8_Witness ==
    /\ HasReturned
    /\ apply_lookalikes
    /\ \E i \in 1..Len(result_chars) :
           /\ normalized[i] \in DOMAIN LOOKALIKE_MAP
           /\ Encode(LOOKALIKE_MAP[normalized[i]], ResolvedCodec) = "UnicodeEncodeError"
           /\ result_chars[i] = replace_char
           /\ result_chars[i] # LOOKALIKE_MAP[normalized[i]]

\* C9: for each character the tiers are tried in the order native encode,
\* look-alike map, accent map, placeholder: the look-alike tier is entered
\* only from a failed native attempt, the accent tier only from a
\* look-alike tier that yielded nothing, the placeholder only from an
\* accent tier that yielded nothing, and the piece emitted is the one of
\* the first tier in that order that yields (so the look-alike replacement
\* for a key of both maps with the look-alike tier enabled).
C9_TierOrder ==
    [][ /\ pc' = "lookalike" =>
               (pc = "native" /\ Encode(<<char>>, codec) = "UnicodeEncodeError")
        /\ pc' = "accent" =>
               (pc = "lookalike" /\ ~Native(char) /\ ~LookalikeYields(char))
        /\ pc' = "placeholder" =>
               (pc = "accent" /\ ~Native(char) /\ ~LookalikeYields(char)
                    /\ ~AccentYields(char))
        /\ Len(result_chars') > Len(result_chars) =>
               result_chars'[idx] =
                   IF Native(char) THEN <<char>>
                   ELSE IF LookalikeYields(char) THEN LOOKALIKE_MAP[char]
                   ELSE IF AccentYields(char) THEN ACCENT_FALLBACK_MAP[char]
                   ELSE replace_char
      ]_vars

\* With both tiers enabled, a character that is a key of both maps, with
\* two different replacements the codec encodes, has yielded its look-alike
\* replacement, and a character that is a key of ACCENT_FALLBACK_MAP only
\* its accent fallback.
C9_Witness ==
    /\ HasReturned
    /\ apply_lookalikes
    /\ apply_accents
    /\ \E i, j \in 1..Len(tiers) :
          /\ normalized[i] \in DOMAIN LOOKALIKE_MAP
          /\ normalized[i] \in DOMAIN ACCENT_FALLBACK_MAP
          /\ ~Native(normalized[i])
          /\ Encode(LOOKALIKE_MAP[normalized[i]], ResolvedCodec) = "ok"
          /\ Encode(ACCENT_FALLBACK_MAP[normalized[i]], ResolvedCodec) = "ok"
          /\ LOOKALIKE_MAP[normalized[i]] # ACCENT_FALLBACK_MAP[normalized[i]]
          /\ tiers[i] = "lookalike"
          /\ result_chars[i] = LOOKALIKE_MAP[normalized[i]]
          /\ normalized[j] \notin DOMAIN LOOKALIKE_MAP
          /\ tiers[j] = "accent"
          /\ result_chars[j] = ACCENT_FALLBACK_MAP[normalized[j]]

\* C10: the cascade runs on the NFKC form of the whole input: when every
\* character of that form is natively encodable, the call returns that
\* form.
C10_NormalizationFirst ==
    (pc = "done" /\ text # <<>> /\ CodecUsable
        /\ \A i \in 1..Len(normalize_unicode(text)) : Native(normalize_unicode(text)[i]))
        => result = Returned(normalize_unicode(text))

\* A key of LOOKALIKE_MAP that the codec lacks and that normalization
\* changes has been returned in its NFKC form, not as its listed
\* replacement.
C10_Witness ==
    /\ HasReturned
    /\ Len(text) = 1
    /\ text[1] \in DOMAIN LOOKALIKE_MAP
    /\ apply_lookalikes
    /\ CodecUsable
    /\ ~Native(text[1])
    /\ tiers = <<"native", "native">>
    /\ normalize_unicode(text) # text
    /\ result.value = normalize_unicode(text)
    /\ result.value # LOOKALIKE_MAP[text[1]]
    /\ result.value # replace_char

(***************************************************************************)
(* Properties of get_unmappable_chars and of concurrent calls.             *)
(***************************************************************************)
\* The get_unmappable_chars call has returned a list.
HasReported == u_pc = "done" /\ u_result.kind = "return"

\* The characters of s, each once, in the order of their first occurrence.
RECURSIVE Distinct(_)
Distinct(s) ==
    IF s = <<>> THEN <<>>
    ELSE LET before == Distinct(SubSeq(s, 1, Len(s) - 1))
             last == s[Len(s)]
         IN  IF last \in Range(before) THEN before ELSE Append(before, last)

\* c has no native encoding in the resolved codec and is a key of neither
\* fallback table.
Unmappable(c) ==
    /\ ~Native(c)
    /\ c \notin DOMAIN LOOKALIKE_MAP
    /\ c \notin DOMAIN ACCENT_FALLBACK_MAP

\* C11: the list get_unmappable_chars returns is exactly the distinct
\* characters of the NFKC-normalized text that the resolved codec cannot
\* encode natively and that are keys of neither LOOKALIKE_MAP nor
\* ACCENT_FALLBACK_MAP, each once, in the order of first occurrence.
C11_ReportExact ==
    HasReported =>
        u_result.value = SelectSeq(Distinct(normalize_unicode(text)), Unmappable)

\* A returned report that lists a character and passes over another the
\* codec cannot encode either, a key of LOOKALIKE_MAP.
C11_Witness ==
    /\ HasReported
    /\ CodecUsable
    /\ u_result.value # <<>>
    /\ \E i \in 1..Len(u_normalized) :
          ~Native(u_normalized[i]) /\ u_normalized[i] \in DOMAIN LOOKALIKE_MAP

\* transcode_to_codepage emitted the placeholder for an occurrence of c.
PlaceholderFor(c) ==
    \E i \in 1..Len(tiers) : normalized[i] = c /\ tiers[i] = "placeholder"

\* C12: for every text and every codepage name, recognised or not, a
\* character of the normalized text is reported by get_unmappable_chars
\* exactly when transcode_to_codepage, called with its default arguments on
\* the same text and codepage, emits the placeholder for it.
C12_ReportMatchesPlaceholders ==
    (HasReturned /\ HasReported) =>
        \A c \in Range(normalize_unicode(text)) :
            c \in Range(u_result.value) <=> PlaceholderFor(c)

\* C16: on the empty text neither call goes past its entry: both return the
\* empty value, for every codepage name, and neither reaches the step that
\* hands the codec to the encoding runtime.
C16_EmptyShortCircuit ==
    text = <<>> =>
        /\ pc \in {"entry", "done"}
        /\ u_pc \in {"entry", "done"}
        /\ pc = "done" => result = Returned(<<>>)
        /\ u_pc = "done" => u_result = Returned(<<>>)
        /\ codec = <<>> /\ u_codec = <<>>

\* Both calls have returned on the empty text, for a codepage whose codec
\* the runtime does not know or cannot even probe.
C16_Witness ==
    /\ text = <<>>
    /\ pc = "done"
    /\ u_pc = "done"
    /\ CodecProbe(ResolvedCodec) # "ok"

\* The piece of output the cascade yields for c when the call runs alone,
\* on the tables as loaded.
PieceAlone(c) ==
    IF Native(c) THEN <<c>>
    ELSE IF /\ apply_lookalikes
            /\ c \in DOMAIN InitialLookalikeMap
            /\ Encode(InitialLookalikeMap[c], ResolvedCodec) = "ok"
    THEN InitialLookalikeMap[c]
    ELSE IF /\ apply_accents
            /\ c \in DOMAIN InitialAccentFallbackMap
            /\ Encode(InitialAccentFallbackMap[c], ResolvedCodec) = "ok"
    THEN InitialAccentFallbackMap[c]
    ELSE replace_char

\* What transcode_to_codepage returns when it runs alone.
TranscodeAlone ==
    IF text = <<>> THEN <<>>
    ELSE IF CodecProbe(ResolvedCodec) = "LookupError" THEN normalize_unicode(text)
    ELSE LET n == normalize_unicode(text)
         IN  Join([i \in 1..Len(n) |-> PieceAlone(n[i])])

\* c is reported when get_unmappable_chars runs alone.
ReportedAlone(c) ==
    /\ ~Native(c)
    /\ c \notin DOMAIN InitialLookalikeMap
    /\ c \notin DOMAIN InitialAccentFallbackMap

\* What get_unmappable_chars returns when it runs alone.
ReportAlone == SelectSeq(Distinct(normalize_unicode(text)), ReportedAlone)

\* What apply_lookalike_map returns when it runs alone.
ApplyLookalikeAlone ==
    Join([i \in 1..Len(text) |->
            IF text[i] \in DOMAIN InitialLookalikeMap
            THEN InitialLookalikeMap[text[i]]
            ELSE <<text[i]>>])

\* What apply_accent_fallback returns when it runs alone.
ApplyAccentAlone ==
    Join([i \in 1..Len(text) |->
            IF ~Native(text[i]) /\ text[i] \in DOMAIN InitialAccentFallbackMap
            THEN InitialAccentFallbackMap[text[i]]
            ELSE <<text[i]>>])

\* What get_codec_name returns for c on the table as loaded.
CodecNameAlone(c) ==
    IF Upper(c) \in DOMAIN InitialCodepageToCodec
    THEN InitialCodepageToCodec[Upper(c)]
    ELSE get_codec_name(c)

\* C15: no step of an operation of text_utils (transcode_to_codepage,
\* get_unmappable_chars, apply_lookalike_map, apply_accent_fallback,
\* get_codec_name) changes LOOKALIKE_MAP, ACCENT_FALLBACK_MAP or
\* CODEPAGE_TO_CODEC, and under every interleaving of the five calls each
\* returns what it returns when run alone.
C15_TablesReadOnly ==
    /\ [][/\ CODEPAGE_TO_CODEC' = CODEPAGE_TO_CODEC
          /\ LOOKALIKE_MAP' = LOOKALIKE_MAP
          /\ ACCENT_FALLBACK_MAP' = ACCENT_FALLBACK_MAP]_vars
    /\ [](/\ HasReturned => result.value = TranscodeAlone
          /\ HasReported => u_result.value = ReportAlone
          /\ l_pc = "done" => l_result = Returned(ApplyLookalikeAlone)
          /\ (f_pc = "done" /\ f_result.kind = "return") =>
                 f_result.value = ApplyAccentAlone
          /\ name_codec # NoResult =>
                 name_codec = Returned(CodecNameAlone(codepage)))

\* Four calls are in the middle of their loops at the same time, at the
\* second character of a text whose first character each of them treated
\* in its own way, while get_codec_name has not yet been called.
C15_Witness ==
    /\ pc \in {"lookalike", "accent", "placeholder"}
    /\ idx = 2
    /\ u_pc = "scan"
    /\ u_idx = 2
    /\ l_pc = "loop"
    /\ l_idx = 2
    /\ l_chars # <<<<text[1]>>>>
    /\ f_pc = "loop"
    /\ f_idx = 2
    /\ f_chars # l_chars
    /\ name_codec = NoResult

\* C19 as stated: for one character transcode_to_codepage makes at most two
\* encode attempts and one map lookup.
C19_TwoEncodesOneLookup ==
    /\ Len(tried) <= 2
    /\ Len(lookups) <= 1

\* C19 as amended: for one character transcode_to_codepage makes the native
\* encode attempt and one more encode attempt for each fallback table that
\* has the character as a key, three at most, and looks the character up at
\* most once in each of the two tables, LOOKALIKE_MAP before
\* ACCENT_FALLBACK_MAP.
C19_BoundedWorkPerChar ==
    /\ Len(lookups) <= 2
    /\ \A i, j \in 1..Len(lookups) :
          i < j => lookups[i].table = "LOOKALIKE_MAP"
                   /\ lookups[j].table = "ACCENT_FALLBACK_MAP"
    /\ Len(tried) <= 1 + Cardinality({i \in 1..Len(lookups) : lookups[i].hit})
    /\ Len(tried) <= 3

\* A character that is a key of both tables took three encode attempts and
\* two lookups: the native attempt and the attempt on its look-alike
\* replacement failed, and its accent fallback was emitted.
C19_Witness ==
    /\ tried = <<"native", "lookalike", "accent">>
    /\ Len(lookups) = 2
    /\ lookups[1].hit /\ lookups[2].hit
    /\ tiers # <<>>
    /\ tiers[Len(tiers)] = "accent"
    /\ pc = "native"

(***************************************************************************)
(* Properties of get_codec_name.                                           *)
(***************************************************************************)
\* a and b are the same name up to the case of their letters.
SameIgnoringCase(a, b) ==
    /\ Len(a) = Len(b)
    /\ \A i \in 1..Len(a) : UpperChar(a[i]) = UpperChar(b[i])

NotSpace(ch) == ch # " "

\* The normalized form of a name: spaces left out, letters in upper case,
\* "-" written "_".
NormalizedName(n) ==
    LET t == SelectSeq(n, NotSpace)
    IN  [i \in 1..Len(t) |-> IF t[i] = "-" THEN "_" ELSE UpperChar(t[i])]

\* n is CP followed by digits only.
IsCPDigits(n) ==
    /\ Len(n) > 2
    /\ n[1] = "C" /\ n[2] = "P"
    /\ \A i \in 3..Len(n) : n[i] \in Digits

\* n starts with ISO_8859_ or with ISO8859_.
IsoPrefixed(n) ==
    \/ Len(n) >= 9 /\ SubSeq(n, 1, 9) = <<"I", "S", "O", "_", "8", "8", "5", "9", "_">>
    \/ Len(n) >= 8 /\ SubSeq(n, 1, 8) = <<"I", "S", "O", "8", "8", "5", "9", "_">>

\* What follows the last "_" of n.
AfterLastUnderscore(n) ==
    LET last == CHOOSE i \in 1..Len(n) :
                    n[i] = "_" /\ \A j \in (i + 1)..Len(n) : n[j] # "_"
    IN  SubSeq(n, last + 1, Len(n))

\* The codec name the four cases give for n, in their order.
CodecByCases(n) ==
    IF \E key \in DOMAIN CODEPAGE_TO_CODEC : SameIgnoringCase(n, key)
    THEN CODEPAGE_TO_CODEC[CHOOSE key \in DOMAIN CODEPAGE_TO_CODEC : SameIgnoringCase(n, key)]
    ELSE IF IsCPDigits(NormalizedName(n))
    THEN <<"c", "p">> \o SubSeq(NormalizedName(n), 3, Len(NormalizedName(n)))
    ELSE IF IsoPrefixed(NormalizedName(n))
    THEN <<"i", "s", "o", "-", "8", "8", "5", "9", "-">>
         \o AfterLastUnderscore(NormalizedName(n))
    ELSE [i \in 1..Len(n) |-> LowerChar(n[i])]

\* C13: get_codec_name returns a codec name for every string, never raises,
\* returns the same name for the same string, and the name is the table's
\* value on a case-insensitive exact hit, else cp<digits> for a normalized
\* name CP<digits>, else iso-8859-<n> for a normalized name that starts with
\* ISO_8859_ or ISO8859_, else the lowercased original.
C13_ResolverCases ==
    /\ name_codec.kind # "raise"
    /\ alias_codec.kind # "raise"
    /\ name_codec.kind = "return" => name_codec.value = CodecByCases(name)
    /\ alias_codec.kind = "return" => alias_codec.value = CodecByCases(alias)
    /\ (name = alias /\ name_codec.kind = "return" /\ alias_codec.kind = "return")
          => name_codec = alias_codec

\* A name that is no key of the table has been resolved by the ISO pattern.
C13_Witness ==
    /\ name_codec.kind = "return"
    /\ ~ \E key \in DOMAIN CODEPAGE_TO_CODEC : SameIgnoringCase(name, key)
    /\ IsoPrefixed(NormalizedName(name))
    /\ Len(name_codec.value) > 9

\* Both spellings have been resolved.
BothResolved == name_codec.kind = "return" /\ alias_codec.kind = "return"

\* C14 as stated: two names that differ only in letter case, in "-" versus
\* "_", or in embedded spaces resolve to the same codec name.
C14_SpellingInsensitive ==
    BothResolved => name_codec.value = alias_codec.value

\* C14 as amended: two names that differ only in letter case resolve to the
\* same codec name; two names that differ in "-" versus "_" or in embedded
\* spaces resolve to the same codec name when their normalized form is CP
\* followed by digits or starts with ISO_8859_ or ISO8859_.
C14_CaseAndPatternInsensitive ==
    BothResolved =>
        /\ SameIgnoringCase(name, alias) => name_codec.value = alias_codec.value
        /\ (IsCPDigits(NormalizedName(name)) \/ IsoPrefixed(NormalizedName(name)))
              => name_codec.value = alias_codec.value

\* Two spellings that differ in more than letter case have been resolved to
\* one codec name.
C14_Witness ==
    /\ BothResolved
    /\ ~SameIgnoringCase(name, alias)
    /\ IsCPDigits(NormalizedName(name)) \/ IsoPrefixed(NormalizedName(name))
    /\ name_codec.value = alias_codec.value

(***************************************************************************)
(* Properties of map_multiplier.                                           *)
(***************************************************************************)
\* n brought into 1..8.
Clamped(n) == IF n < 1 THEN 1 ELSE IF n > 8 THEN 8 ELSE n

\* The size a named multiplier stands for, whatever the case of its letters.
NamedSize(t) ==
    IF SameIgnoringCase(t, <<"n", "o", "r", "m", "a", "l">>) THEN 1
    ELSE IF SameIgnoringCase(t, <<"d", "o", "u", "b", "l", "e">>) THEN 2
    ELSE IF SameIgnoringCase(t, <<"t", "r", "i", "p", "l", "e">>) THEN 3
    ELSE 0

\* C20: map_multiplier returns an integer in 1..8 for every input: 1 for
\* None; 1, 2, 3 for normal, double, triple in any letter case; integers and
\* numeric strings clamped into 1..8; 1 for every other string.
C20_MultiplierInRange ==
    m_result.kind # "raise"
    /\ (m_result.kind = "return" =>
          /\ m_result.value \in 1..8
          /\ val.type = "NoneType" => m_result.value = 1
          /\ val.type = "int" => m_result.value = Clamped(val.int)
          /\ (val.type = "str" /\ NamedSize(val.str) # 0)
                => m_result.value = NamedSize(val.str)
          /\ (val.type = "str" /\ NamedSize(val.str) = 0 /\ ParseInt(val.str).ok)
                => m_result.value = Clamped(ParseInt(val.str).value)
          /\ (val.type = "str" /\ NamedSize(val.str) = 0 /\ ~ParseInt(val.str).ok)
                => m_result.value = 1)

\* A number beyond the range has been clamped to 8.
C20_Witness ==
    /\ m_result = Returned(8)
    /\ \/ val.type = "int" /\ val.int > 8
       \/ val.type = "str" /\ ParseInt(val.str).ok /\ ParseInt(val.str).value > 8

(***************************************************************************)
(* Properties of the printer adapters and of the printing entry points.    *)
(***************************************************************************)

\* UTF-8 transcoding is requested.
Transcodes ==
    \/ via \in {"print_text_utf8", "device_action"}
    \/ via = "print_message" /\ utf8

\* The text the entry point starts from.
RequestText == IF via = "print_message" THEN TitledText ELSE message

\* The calls that hand text to the printer.
Payloads == {i \in DOMAIN wire : wire[i].routine \in {"text", "_raw"}}

\* The call of transcode_to_codepage the request made: on the request's
\* text, for the configured codepage (CP437 when unset), returned.
TranscodedForConfig ==
    /\ text = RequestText
    /\ codepage = ConfiguredCodepage
    /\ pc = "done"
    /\ result.kind = "return"

FitsWidth(t) ==
    \/ line_width <= 0
    \/ /\ t = <<>> \/ t[Len(t)] # 10
       /\ \A i \in 1..Len(SplitLines(t)) :
              Len(SplitLines(t)[i]) <= line_width

C18_UsbNeverKeepsAlive ==
    /\ _keepalive = FALSE
    /\ _printer = "None"
    /\ _lock = "free" => connections = 0

\* start was called with keepalive=True and a print has since completed.
C18_Witness ==
    /\ keepalive = TRUE
    /\ p_pc = "done"
    /\ p_result = Returned(<<>>)
    /\ wire # <<>>

(***************************************************************************)
(* Properties of _wrap_text.                                               *)
(***************************************************************************)

\* Number of newline characters a text starts with.
RECURSIVE LeadingNewlines(_)
LeadingNewlines(t) ==
    IF t # <<>> /\ Head(t) = 10 THEN 1 + LeadingNewlines(Tail(t)) ELSE 0

\* Number of newline characters a text ends with.
RECURSIVE TrailingNewlines(_)
TrailingNewlines(t) ==
    IF t # <<>> /\ t[Len(t)] = 10
    THEN 1 + TrailingNewlines(SubSeq(t, 1, Len(t) - 1))
    ELSE 0

\* C21: _wrap_text returns a text that starts and ends with as many
\* newlines as its input for every positive line width, and returns its
\* input when the line width is 0.
C21_NewlinesPreserved ==
    w_result.kind = "return" =>
        IF line_width = 0
        THEN w_result.value = w_text
        ELSE /\ LeadingNewlines(w_result.value) = LeadingNewlines(w_text)
             /\ TrailingNewlines(w_result.value) = TrailingNewlines(w_text)

(***************************************************************************)
(* Properties of _build_usb_device_choices.                                *)
(***************************************************************************)

\* The choices that stand for devices.
DeviceKeys == (DOMAIN b_result.value) \ {BrowseAllKey, ManualKey}

\* C22: every device of the list gets a choice key of its own, and the
\* returned choices hold as many device entries as there are devices.
C22_DistinctChoiceKeys ==
    b_result.kind = "return" =>
        /\ \A i, j \in 1..Len(printers) :
               i # j => printers[i]._choice_key # printers[j]._choice_key
        /\ Cardinality(DeviceKeys) = Len(printers)

(***************************************************************************)
(* Properties of UsbPrinterAdapter._connect.                               *)
(***************************************************************************)

\* A failure the statement calls retryable: errno 5, 16 or 19, or a
\* matching message.
RetryableFailure(exc) ==
    \/ exc.errno \in RetryableErrnos
    \/ exc.message = "match"

\* The attempts before the last were all followed by a retry.
Retried == {i \in 1..Len(opens) : i < Len(opens) \/ k_result.kind = "none"}

ConnectBounded ==
    /\ Len(opens) <= 3
    /\ \A i \in Retried : opens[i] # Opened /\ RetryableFailure(opens[i])
    /\ opens # <<>> /\ opens[1] # Opened /\ ~RetryableFailure(opens[1]) =>
           /\ Len(opens) = 1
           /\ k_result = RaisedExc(opens[1])
    /\ k_result.kind = "return" =>
           /\ opens[Len(opens)] = Opened
           /\ k_result = Connection(Len(opens))
    /\ k_result.kind = "raise" =>
           /\ opens[Len(opens)] # Opened
           /\ k_result.exc = opens[Len(opens)]
           /\ Len(opens) = 3 \/ ~_is_retryable(opens[Len(opens)])

\* C27: UsbPrinterAdapter._connect makes at most 3 open attempts and then
\* ends; it tries again only after a retryable failure and only while
\* attempts remain, returns the connection of the first attempt that
\* succeeds, raises the exception of the last failed attempt otherwise, and
\* raises a non-retryable failure after a single attempt.
C27_ConnectRetriesBounded ==
    /\ []ConnectBounded
    /\ <>(k_result.kind # "none")

\* The third attempt succeeded after two retryable failures.
C27_Witness ==
    /\ k_result = Connection(3)
    /\ Len(opens) = 3
    /\ opens[1] # Opened
    /\ opens[2] # Opened

\* C26: the listeners are called only by an event that changes the status
\* value, once each with the new value; an event that leaves the status at
\* its value calls no listener.
C26_ListenersHearChangesOnly ==
    heard.calls = IF heard.before # heard.after
                  THEN [i \in 1..Len(heard.listeners) |->
                           [listener |-> heard.listeners[i],
                            value |-> heard.after]]
                  ELSE <<>>

\* C28: once stop has returned, no periodic status check is scheduled and
\* no connection is stored, whatever calls of start and stop came before.
C28_StopLeavesNothing ==
    lifecycle = "stopped" =>
        /\ timers = 0
        /\ _cancel_status = FALSE
        /\ _printer = "None"

\* The caller is inside the printer-I/O section of its operation: between
\* taking and releasing the lock.
InIO(t) ==
    tasks[t].pc \in {"do_print", "read", "content", "finally", "post",
                     "feed", "fed", "cut", "cut_done", "acquire", "acquired",
                     "acquire_failed", "command", "sent", "release", "leave"}

\* C23: at most one of the calls of print_text, print_qr, print_image,
\* print_barcode, feed, cut and beep is inside its printer-I/O section at
\* any time, and that one holds the lock.
C23_MutualExclusion ==
    /\ \A t, u \in Tasks : InIO(t) /\ InIO(u) => t = u
    /\ \A t \in Tasks : InIO(t) => _lock = "locked"

\* One caller sends its content while the other waits for the lock.
C23_Witness ==
    \E t, u \in Tasks :
        /\ tasks[t].pc \in {"content", "command"}
        /\ tasks[u].pc = "lock"

\* C24: while an operation holds the lock and uses the stored connection,
\* no other operation closes or clears that connection.
C24_StoredConnectionStaysOpen ==
    \A t \in Tasks : InIO(t) => tasks[t].printer # "closed"

\* C25: an operation that has returned has closed every connection it
\* opened for itself.
C25_NoConnectionLeak ==
    \A t \in Tasks :
        tasks[t].pc = "done" => tasks[t].closed = tasks[t].opened

\* The cut argument is "partial" or "full" in some letter case.
NamesCut(mode) ==
    /\ mode.type = "str"
    /\ Lower(mode.str) \in {<<"p", "a", "r", "t", "i", "a", "l">>,
                            <<"f", "u", "l", "l">>}

\* The feed argument is a positive number of lines.
NamesFeed(feed) == feed.type = "int" /\ feed.int > 0

\* The commands of a print operation are the content, then the feed when
\* feed > 0, then the cut when the mode is partial or full, and nothing
\* after a content that failed.
PrintOrder(task) ==
    LET names == Names(task.sent)
        has(cmd) == \E i \in 1..Len(names) : names[i] = cmd
    IN  /\ names \in {<<>>, <<"content">>, <<"content", "feed">>,
                      <<"content", "cut">>, <<"content", "feed", "cut">>}
        /\ has("feed") => NamesFeed(task.feed)
        /\ has("cut") => NamesCut(task.cut)
        /\ task.sent # <<>> /\ ~task.sent[1].ok => Len(task.sent) = 1
        /\ task.pc = "done" /\ task.result = "ok" =>
              /\ has("content")
              /\ NamesFeed(task.feed) => has("feed")
              /\ NamesCut(task.cut) => has("cut")

OneCut(task) ==
    /\ Len(task.sent) = 1
    /\ task.sent[1].cmd = "cut"
    /\ task.sent[1].mode =
          IF Lower(task.cut.str) = <<"p", "a", "r", "t", "i", "a", "l">>
          THEN "PART"
          ELSE "FULL"

\* The call of cut holds the lock from the job of _acquire_printer to the
\* release, and has sent nothing before its command job.
CutUnderLock(task) ==
    /\ task.pc \in {"lock", "acquire", "acquired", "acquire_failed",
                    "command"} =>
          task.sent = <<>>
    /\ task.pc \in {"acquire", "acquired", "acquire_failed", "command",
                    "sent", "release", "leave"} =>
          _lock = "locked"

\* C30 as stated: cut(mode) issues exactly one cut command under the lock
\* for every mode string, a partial cut for "partial" in any letter case
\* and a full cut for every other mode.
C30_OneCutForEveryMode ==
    \A t \in Tasks :
        tasks[t].op = "cut" =>
            /\ CutUnderLock(tasks[t])
            /\ tasks[t].pc \in {"sent", "release", "leave", "done"} =>
                  OneCut(tasks[t])

\* C30, amended: cut(mode) issues exactly one cut command, under the lock,
\* for every mode string once _acquire_printer has given it a printer: a
\* partial cut for "partial" in any letter case and a full cut for every
\* other mode.  A call whose _connect raises has opened no connection,
\* issues no command and raises.
C30_OneCutOnceConnected ==
    \A t \in Tasks :
        tasks[t].op = "cut" =>
            /\ CutUnderLock(tasks[t])
            /\ tasks[t].pc \in {"sent", "release", "leave"} =>
                  OneCut(tasks[t])
            /\ tasks[t].pc = "done" =>
                  \/ OneCut(tasks[t])
                  \/ /\ tasks[t].sent = <<>>
                     /\ tasks[t].result = "raised"
                     /\ tasks[t].opened = 0
            /\ tasks[t].pc = "done" /\ tasks[t].result = "ok" =>
                  OneCut(tasks[t])

\* cut("none") has issued a full cut on a connection it opened, and the
\* _connect of cut("PARTIAL") has raised.
C30_Witness ==
    \E t, u \in Tasks :
        /\ tasks[t].op = "cut"
        /\ tasks[t].cut = StrValue(<<"n", "o", "n", "e">>)
        /\ tasks[t].pc = "done"
        /\ tasks[t].opened = 1
        /\ tasks[t].sent = <<Command("cut", "FULL", TRUE)>>
        /\ tasks[u].op = "cut"
        /\ tasks[u].cut = StrValue(<<"P", "A", "R", "T", "I", "A", "L">>)
        /\ tasks[u].pc = "done"
        /\ tasks[u].result = "raised"
        /\ tasks[u].sent = <<>>

====
